---- MODULE Spec2Model ----
(***************************************************************************)
(* gocalm: RESTHandler request dispatch and memcache read-through caching. *)
(*                                                                         *)
(* The repository carries several generations of the handler.  Three are   *)
(* modelled, selected by the variable `variant`:                           *)
(*   "makeKey"     src/calm.go:1-469    cache key = md5 of the request URI,*)
(*                                      no invalidation, deferred drain    *)
(*   "getCacheKey" src/calm.go:471-955  cache key = Name_v1_v2.. over the  *)
(*                                      sorted kvpairs, deleteCache        *)
(*   "mckey"       src/unnamed/part_001 cache key = Name_key / Name__all,  *)
(*                                      getAllJSON without drain           *)
(* The backend is the test Model of src/calm_test.go (a key/value store).  *)
(***************************************************************************)
EXTENDS Integers, Sequences, FiniteSets, TLC

VARIABLES
    variant,      \* which generation of the handler is running
    Expiration,   \* RESTHandler.Expiration (0 = no cache)
    dataStore,    \* calm_test.go dataStore: key -> value, Absent when missing
    cache,        \* memcache contents: cache key -> bytes
    pc,           \* "idle" | "done": position of the request task
    req,          \* the request being handled
    resp,         \* the response written for it
    calls,        \* Model / Cache calls made while handling it, in order
    scen,         \* history: progress of a GET k ; mutate k sequence
    follows,      \* history: the GET being answered follows such a sequence
    served,       \* number of requests handled so far
    lastPut,      \* history: the latest successful PUT and its age in requests
    header,       \* the Content-Type values of the response header
    r1, r2,       \* two requests whose cache keys are computed
    k1, k2,       \* the cache keys computed for r1 and r2, Nil before
    items,        \* what GetAll's producer goroutine sends, in order
    sent,         \* number of sends that found a receiver
    ppc,          \* producer goroutine: "idle" | "running" | "closed"
    cpc,          \* getAllJSON: "idle" | "range" | "drain" | "returned"
    buf,          \* getAllJSON: the buffer being filled
    out,          \* getAllJSON: what it returns, [b, err]
    mock,         \* MockModel: id -> title of the object, Absent when missing
    hpc,          \* "idle" | "done": position of the wrapped handler
    hreq,         \* the request the wrapped handler is given
    hres,         \* what the transport sees: a response or an escaped panic
    routers,      \* the Routers created so far, in the order mux registered them
    rpc,          \* "idle" | "done": position of the request to the Handler
    rreq,         \* the request the Handler is given
    rres,         \* what it answers
    size,         \* len(b) of the payload a read serializes
    wrote,        \* the status and the number of bytes the read answers with
    kv1,          \* kvpairs, the parameter mapping of the request r1
    mpc,          \* "idle" | "done": the query of r1 has been merged into it
    pathParameters, \* part_001: the key SetPathParameters stored in the handler
    proc,         \* two concurrent requests, "get" and "put": [sup, key, pc, b]
    writes        \* what one request wrote to the ResponseWriter, in order

handlerVars ==
    <<Expiration, dataStore, cache, pc, req, resp, calls, scen, follows, served,
      lastPut, header>>
keyVars == <<r1, r2, k1, k2>>
streamVars == <<items, sent, ppc, cpc, buf, out>>
mockVars == <<mock, hpc, hreq, hres>>
routerVars == <<routers, rpc, rreq, rres>>
sizeVars == <<size, wrote>>
mergeVars == <<kv1, mpc>>
raceVars == <<pathParameters, proc>>
otherVars == <<sizeVars, mergeVars, raceVars, writes>>
vars ==
    <<variant, handlerVars, keyVars, streamVars, mockVars, routerVars, otherVars>>

----------------------------------------------------------------------------
(* Bounds of the model *)

MaxRequests == 3     \* requests handled in one behaviour
MaxEntries == 2      \* entries memcache holds before a Set fails
MaxItems == 3        \* items GetAll's producer sends before it closes
MaxAccepts == 2      \* Accept header values of one request
MaxElements == 2     \* media-range elements of one header value

(* Program constants *)

MEMCACHE_VALUE_MAX == 1000000
StatusOK == 200
StatusBadRequest == 400
StatusNotFound == 404
StatusMethodNotAllowed == 405
StatusNotAcceptable == 406
StatusInternalServerError == 500
StatusNotImplemented == 501
StatusCreated == 201
StatusNoContent == 204
StatusConflict == 409

Name == "test"       \* RESTHandler.Name
Key == "key"         \* RESTHandler.Key
SUCCESS == "Success"
NOT_FOUND == "Not Found"                 \* calm.go:50
NOT_ALLOWED == "Method Not Allowed"      \* calm.go:51
TYPE_MISMATCH == "Type mismatch"         \* calm.go:52
NotFound == "Not found"                  \* calm.go:517
NotImplemented == "Not implemented"      \* calm.go:519
Unsupported == "Unsupported request method"
JSON_UTF8 == "application/json; charset=utf-8"
JSON_TYPE == "application/json"

Nil == "<nil>"
Absent == "<absent>"

Keys == {"0", "1"}
Values == {"x", "y"}


ParamOrder == <<"a", "key">>     \* the parameter names, in sort.Strings order
ParamNames == {ParamOrder[i] : i \in 1..Len(ParamOrder)}
Paths == {"/", "/0", "/1"}
Methods == {"GET", "PUT", "PATCH", "POST", "DELETE", "HEAD"}

(* Accept header: a list of header values, each a list of media-range       *)
(* elements; an element is <<type, subtype>> or Malformed (no type/subtype).*)
Malformed == <<"?">>
Json == <<"application", "json">>
Html == <<"text", "html">>
Star == <<"*", "*">>
AcceptHeaders == { <<>>, <<<<Html>>>> }

----------------------------------------------------------------------------
(* kvpairs: map[string]string, a function on a subset of ParamNames *)

EmptyMap == [k \in {} |-> ""]

KVGet(kvpairs, k) == IF k \in DOMAIN kvpairs THEN kvpairs[k] ELSE ""

KVSet(kvpairs, k, v) ==
    [n \in DOMAIN kvpairs \cup {k} |-> IF n = k THEN v ELSE kvpairs[n]]

(* url.Values.Get: the first value of the name in the query *)
QueryNames(q) == {q[i][1] : i \in 1..Len(q)}

QueryFirst(q, k) ==
    LET i == CHOOSE i \in 1..Len(q) :
                 q[i][1] = k /\ \A j \in 1..(i - 1) : q[j][1] # k
    IN q[i][2]

\* mutant: a path parameter is kept when the query has the same name
MergeQueryKeep(kv, q) ==
    [n \in DOMAIN kv \cup QueryNames(q) |->
        IF n \in DOMAIN kv THEN kv[n] ELSE QueryFirst(q, n)]

(* ServeHTTP: put the query values in URL into kvpairs *)
MergeQuery(kv, q) ==
    [n \in DOMAIN kv \cup QueryNames(q) |->
        IF n \in QueryNames(q) THEN QueryFirst(q, n) ELSE kv[n]]

(* goroute: the kvpairs the route pattern extracts from the path.  A route *)
(* with the (?P<key>...) group yields an entry, possibly empty; a route    *)
(* without it yields no entry.                                             *)
PathKey(path) == IF path = "/0" THEN "0" ELSE IF path = "/1" THEN "1" ELSE ""

RouteKV(path, keyGroup) ==
    IF keyGroup THEN KVSet(EmptyMap, Key, PathKey(path)) ELSE EmptyMap

(* r.URL.RequestURI(): path, then "?" and the raw query when there is one *)
RECURSIVE RawQuery(_)
RawQuery(q) ==
    IF q = <<>> THEN ""
    ELSE q[1][1] \o "=" \o q[1][2] \o
         (IF Len(q) = 1 THEN "" ELSE "&" \o RawQuery(Tail(q)))

RequestURI(r) ==
    r.path \o (IF r.query = <<>> THEN "" ELSE "?" \o RawQuery(r.query))

(* md5.Sum + hex.EncodeToString: a digest of the URI; distinct URIs are    *)
(* taken to have distinct digests.                                         *)
MD5Hex(s) == "md5(" \o s \o ")"

makeKey(r) == MD5Hex(RequestURI(r))

(* `for k, _ := range kvpairs`: Go ranges over a map in any order *)
MapOrders(kvpairs) ==
    {s \in [1..Cardinality(DOMAIN kvpairs) -> DOMAIN kvpairs] :
        \A i, j \in DOMAIN s : i # j => s[i] # s[j]}

\* mutant: the index of key names is left in the map's iteration order
sortStringsNot(keys) == keys

(* sort.Strings(keys), keys being distinct parameter names *)
sortStrings(keys) ==
    SelectSeq(ParamOrder, LAMBDA n : \E i \in 1..Len(keys) : keys[i] = n)

(* ServeHTTP: make a sorted index of key names *)
SortedKeys(kvpairs) ==
    sortStrings(CHOOSE s \in MapOrders(kvpairs) : TRUE)

\* mutant: the key is the resource name alone
getCacheKeyNameOnly(keys, kvpairs) == Name

RECURSIVE getCacheKey(_, _)
getCacheKey(keys, kvpairs) ==
    IF keys = <<>> THEN Name
    ELSE getCacheKey(SubSeq(keys, 1, Len(keys) - 1), kvpairs)
             \o "_" \o KVGet(kvpairs, keys[Len(keys)])


----------------------------------------------------------------------------
(* The backend: Model of calm_test.go over dataStore *)

ErrNotFound == "ErrNotFound"
ErrNotImplemented == "ErrNotImplemented"
ErrTypeMismatch == "ErrTypeMismatch"
ErrParse == "strconv.ParseInt"          \* a plain error
ErrDecode == "json.Unmarshal"           \* a plain error
ErrExists == "Already exists"           \* a plain error
ErrApply == "jsonpatch.Apply"           \* a plain error

(* json.Marshal(KeyValue{key, value}) *)
Marshal(k, v) == "{id:" \o k \o ",value:" \o v \o "}"

(* Model.Get: [v, err]; v is the marshalled item *)
ModelGet(st, kvpairs) ==
    LET key == KVGet(kvpairs, Key)
    IN IF key \notin Keys THEN [v |-> Nil, err |-> ErrParse]
       ELSE IF st[key] = Absent THEN [v |-> Nil, err |-> ErrNotFound]
       ELSE [v |-> Marshal(key, st[key]), err |-> Nil]

\* mutant: Put reports success without storing the value
ModelPutDrop(st, kvpairs, value) ==
    LET key == KVGet(kvpairs, Key)
    IN IF key \notin Keys THEN [store |-> st, err |-> ErrParse]
       ELSE IF st[key] = Absent THEN [store |-> st, err |-> ErrNotFound]
       ELSE [store |-> st, err |-> Nil]

\* mutant: Put creates the item when it is missing
ModelPutUpsert(st, kvpairs, value) ==
    LET key == KVGet(kvpairs, Key)
    IN IF key \notin Keys THEN [store |-> st, err |-> ErrParse]
       ELSE [store |-> [st EXCEPT ![key] = value], err |-> Nil]

(* Model.Get of a backend that may answer a missing item with (nil, nil)   *)
(* instead of ErrNotFound (ModelInterface, calm.go:92)                     *)
GetOutcome(st, kvpairs, o) ==
    LET g == ModelGet(st, kvpairs)
    IN IF o.none /\ g.err = ErrNotFound THEN [v |-> Nil, err |-> Nil] ELSE g

(* Model.Put: [store, err] *)
ModelPut(st, kvpairs, value) ==
    LET key == KVGet(kvpairs, Key)
    IN IF key \notin Keys THEN [store |-> st, err |-> ErrParse]
       ELSE IF st[key] = Absent THEN [store |-> st, err |-> ErrNotFound]
       ELSE [store |-> [st EXCEPT ![key] = value], err |-> Nil]

(* Model.Post: [store, id, err]; the id is the one in the body *)
ModelPost(st, id, value) ==
    IF st[id] # Absent THEN [store |-> st, id |-> "", err |-> ErrExists]
    ELSE [store |-> [st EXCEPT ![id] = value], id |-> id, err |-> Nil]

(* Model.Delete: [store, err] *)
ModelDelete(st, kvpairs) ==
    LET key == KVGet(kvpairs, Key)
    IN IF key \notin Keys THEN [store |-> st, err |-> ErrParse]
       ELSE IF st[key] = Absent THEN [store |-> st, err |-> ErrNotFound]
       ELSE [store |-> [st EXCEPT ![key] = Absent], err |-> Nil]

(* Model.GetAll followed by the range loop of getAllJSON: the items in the *)
(* order the producer sends them (Go map order: any), joined into an array *)
RECURSIVE JoinItems(_, _)
JoinItems(st, order) ==
    IF order = <<>> THEN ""
    ELSE LET rest == JoinItems(st, Tail(order))
             k == Head(order)
         IN IF st[k] = Absent THEN rest
            ELSE Marshal(k, st[k]) \o
                 (IF \E i \in 2..Len(order) : st[order[i]] # Absent
                  THEN "," ELSE "") \o rest

ArrayJSON(st, order) == "[" \o JoinItems(st, order) \o "]"

Orders == {<<"0", "1">>, <<"1", "0">>}

(* the stores a run starts from: one item, two items, none *)
InitStores ==
    { [k \in Keys |-> IF k = "0" THEN "x" ELSE Absent],
      [k \in Keys |-> IF k = "0" THEN "x" ELSE "y"],
      [k \in Keys |-> Absent] }

----------------------------------------------------------------------------
(* memcache *)

Call(op, arg, ok) == [op |-> op, arg |-> arg, ok |-> ok, none |-> FALSE]

(* a Model.Get or Model.GetAll that returned (nil, nil): nothing found *)
CallNone(op, arg) == [op |-> op, arg |-> arg, ok |-> TRUE, none |-> TRUE]

(* the log entry of that Model.Get *)
GetCall(st, kvpairs, o) ==
    LET g == GetOutcome(st, kvpairs, o)
    IN IF g.v = Nil /\ g.err = Nil THEN CallNone("Model.Get", KVGet(kvpairs, Key))
       ELSE Call("Model.Get", KVGet(kvpairs, Key), g.err = Nil)

CacheHas(c, key) == key \in DOMAIN c

(* cacheGet (calm.go:195) / Cache.Get: the value, Nil on any error *)
cacheGet(c, key, up) == IF up /\ CacheHas(c, key) THEN c[key] ELSE Nil

(* Cache.Set succeeds when memcache is up and has room *)
SetStores(c, key, up) ==
    up /\ (CacheHas(c, key) \/ Cardinality(DOMAIN c) < MaxEntries)

\* mutant: a full memcache makes room by dropping another entry
CachePutEvict(c, key, value, up) ==
    IF ~up THEN c
    ELSE IF SetStores(c, key, up) THEN KVSet(c, key, value)
    ELSE LET old == CHOOSE k \in DOMAIN c : TRUE
         IN KVSet([k \in DOMAIN c \ {old} |-> c[k]], key, value)

CachePut(c, key, value, up) ==
    IF SetStores(c, key, up) THEN KVSet(c, key, value) ELSE c

(* Cache.Delete *)
CacheDelete(c, key, up) ==
    IF up THEN [k \in DOMAIN c \ {key} |-> c[k]] ELSE c


----------------------------------------------------------------------------
(* Pieces shared by the handlers *)

(* acceptJSON (json.go:181): the first element decides unless it is a     *)
(* well-formed media range that is not JSON                                *)
RECURSIVE acceptJSON(_)
acceptJSON(accept) ==
    IF accept = <<>> THEN FALSE
    ELSE LET element == Head(accept)
         IN IF Len(element) # 2 THEN FALSE
            ELSE IF element[1] \in {"*", "application"}
                    /\ element[2] \in {"*", "json"} THEN TRUE
            ELSE acceptJSON(Tail(accept))

(* ServeHTTP: check if request accept json *)
AcceptOK(accepts) ==
    Len(accepts) = 0 \/ \E i \in 1..Len(accepts) : acceptJSON(accepts[i])

(* the kvpairs ServeHTTP dispatches on: route parameters, then the query *)
Merged(r) == MergeQuery(RouteKV(r.path, r.keyGroup), r.query)

(* readJSON (json.go:161): the body decodes into the DataType; for the     *)
(* PATCH of calm.go:414, jsonpatch.DecodePatch accepts the body            *)
Decodes(body) == body.ok

(* JSON patch documents: a replace of a member the item does not have, and *)
(* a replace of /value by a number, which is no string                     *)
PatchNoPath == [ok |-> TRUE, id |-> "/nope", value |-> "y"]
PatchNumber == [ok |-> TRUE, id |-> "", value |-> "5"]
PatchDocs == {PatchNoPath, PatchNumber}

(* patch.Apply succeeds on the marshalled item *)
Applies(body) == body # PatchNoPath

(* json.Unmarshal of the patched document into the DataType succeeds *)
Unmarshals(body) == body # PatchNumber

JSONMsg(msg) == "{message:" \o msg \o "}"
JSONId(id) == "{id:" \o id \o "}"

Res(status, body, log, st, c) ==
    [status |-> status, body |-> body, calls |-> log, store |-> st, cache |-> c]

----------------------------------------------------------------------------
(* The handler of calm.go:1-469 (variant "makeKey") *)

\* mutant: the recover answers every panic with 500
RecoverStatusPlain(err) == StatusInternalServerError

(* the deferred recover of ServeHTTP: *Error keeps its status, the rest 500 *)
RecoverStatus(err) ==
    IF err = ErrNotFound THEN StatusNotFound
    ELSE IF err = ErrNotImplemented THEN StatusMethodNotAllowed
    ELSE IF err = ErrTypeMismatch THEN StatusBadRequest
    ELSE StatusInternalServerError

(* the message the recover sends: e.Message of an *Error, e.Error() of a   *)
(* plain error, which is its text                                          *)
RecoverMessage(err) ==
    IF err = ErrNotFound THEN NOT_FOUND
    ELSE IF err = ErrNotImplemented THEN NOT_ALLOWED
    ELSE IF err = ErrTypeMismatch THEN TYPE_MISMATCH
    ELSE err

Panic(err, log, st, c) ==
    Res(RecoverStatus(err), JSONMsg(RecoverMessage(err)), log, st, c)

\* mutant: a payload of exactly MEMCACHE_VALUE_MAX bytes is not cached
TooBigFrom(n) == n >= MEMCACHE_VALUE_MAX

(* cacheSet: if len(value) > MEMCACHE_VALUE_MAX *)
TooBig(n) == n > MEMCACHE_VALUE_MAX

(* cacheSet (calm.go:205): [calls, cache] *)
cacheSet(c, key, value, up, log) ==
    IF TooBig(Len(value)) THEN [calls |-> log, cache |-> c]
    ELSE [calls |-> Append(log, Call("Cache.Set", key, SetStores(c, key, up))),
          cache |-> CachePut(c, key, value, up)]

\* mutant: a hit is re-validated against the backend
cachedRevalidate(key, kvpairs, st, c, o) ==
    LET g == ModelGet(st, kvpairs)
        log == <<Call("Cache.Get", key, CacheHas(c, key)),
                 Call("Model.Get", KVGet(kvpairs, Key), g.err = Nil)>>
    IN IF g.err # Nil THEN [b |-> Nil, err |-> g.err, calls |-> log, cache |-> c]
       ELSE [b |-> g.v, err |-> Nil, calls |-> log, cache |-> CachePut(c, key, g.v, TRUE)]

\* mutant: a failed Cache.Set fails the read
cachedSetFatal(key, kvpairs, st, c, o) ==
    LET g == ModelGet(st, kvpairs)
        log == <<Call("Cache.Get", key, FALSE),
                 Call("Model.Get", KVGet(kvpairs, Key), g.err = Nil),
                 Call("Cache.Set", key, SetStores(c, key, o.setUp))>>
    IN IF o.getUp /\ CacheHas(c, key)
       THEN [b |-> c[key], err |-> Nil,
             calls |-> <<Call("Cache.Get", key, TRUE)>>, cache |-> c]
       ELSE IF g.err # Nil
       THEN [b |-> Nil, err |-> g.err, calls |-> SubSeq(log, 1, 2), cache |-> c]
       ELSE IF ~SetStores(c, key, o.setUp)
       THEN [b |-> Nil, err |-> "memcache", calls |-> log, cache |-> c]
       ELSE [b |-> g.v, err |-> Nil, calls |-> log, cache |-> KVSet(c, key, g.v)]

(* cached (calm.go:225): [b, err, calls, cache] *)
cached(key, kvpairs, st, c, o) ==
    LET value == IF Expiration # 0 THEN cacheGet(c, key, o.getUp) ELSE Nil
        log1 == IF Expiration # 0
                THEN <<Call("Cache.Get", key, value # Nil)>> ELSE <<>>
        g == GetOutcome(st, kvpairs, o)
        log2 == Append(log1, GetCall(st, kvpairs, o))
        set == cacheSet(c, key, g.v, o.setUp, log2)
    IN IF value # Nil
       THEN [b |-> value, err |-> Nil, calls |-> log1, cache |-> c]
       ELSE IF g.err # Nil
       THEN [b |-> Nil, err |-> g.err, calls |-> log2, cache |-> c]
       ELSE IF g.v = Nil
       THEN [b |-> Nil, err |-> ErrNotFound, calls |-> log2, cache |-> c]
       ELSE IF Expiration = 0
       THEN [b |-> g.v, err |-> Nil, calls |-> log2, cache |-> c]
       ELSE [b |-> g.v, err |-> Nil, calls |-> set.calls, cache |-> set.cache]

(* getAllJSON (calm.go:252) with the Model's channel read to its close *)
getAllJSON(key, kvpairs, st, c, o) ==
    LET value == IF Expiration # 0 THEN cacheGet(c, key, o.getUp) ELSE Nil
        log1 == IF Expiration # 0
                THEN <<Call("Cache.Get", key, value # Nil)>> ELSE <<>>
        log2 == Append(log1, Call("Model.GetAll", "", TRUE))
        b == ArrayJSON(st, o.order)
        set == cacheSet(c, key, b, o.setUp, log2)
    IN IF value # Nil
       THEN [b |-> value, err |-> Nil, calls |-> log1, cache |-> c]
       ELSE IF o.none     \* Model.GetAll returned (nil, nil)
       THEN [b |-> Nil, err |-> ErrNotFound,
             calls |-> Append(log1, CallNone("Model.GetAll", "")), cache |-> c]
       ELSE IF Expiration = 0
       THEN [b |-> b, err |-> Nil, calls |-> log2, cache |-> c]
       ELSE [b |-> b, err |-> Nil, calls |-> set.calls, cache |-> set.cache]

\* mutant: the patched value is stored without the fetch and the checks
patch1Blind(r, kvpairs, st, c) ==
    LET key == KVGet(kvpairs, Key)
    IN IF ~Decodes(r.body) THEN Panic(ErrDecode, <<>>, st, c)
       ELSE Res(StatusOK, JSONMsg(SUCCESS),
                <<Call("Model.Patch", key, TRUE)>>,
                [st EXCEPT ![key] = r.body.value], c)

(* ServeHTTP, case PATCH with a key (calm.go:414): DecodePatch, Model.Get, *)
(* patch.Apply, json.Unmarshal into the DataType, Model.Patch              *)
patch1(r, kvpairs, st, c) ==
    LET key == KVGet(kvpairs, Key)
        g == ModelGet(st, kvpairs)
        log1 == <<Call("Model.Get", key, g.err = Nil)>>
        \* Model.Patch: dataStore[doc.Key] = doc.Value
        patched == [st EXCEPT ![key] = r.body.value]
        log2 == Append(log1, Call("Model.Patch", key, TRUE))
    IN IF ~Decodes(r.body) THEN Panic(ErrDecode, <<>>, st, c)
       ELSE IF g.err # Nil THEN Panic(g.err, log1, st, c)
       ELSE IF ~Applies(r.body) THEN Panic(ErrApply, log1, st, c)
       ELSE IF ~Unmarshals(r.body) THEN Panic(ErrDecode, log1, st, c)
       ELSE Res(StatusOK, JSONMsg(SUCCESS), log2, patched, c)

(* ServeHTTP (calm.go:328) past the Accept check *)
Serve1(r, st, c, o) ==
    LET kvpairs == Merged(r)
        key == KVGet(kvpairs, Key)
        cachekey == makeKey(r)
    IN CASE r.method = "GET" /\ key # "" ->
              LET g == cached(cachekey, kvpairs, st, c, o)
              IN IF g.err # Nil THEN Panic(g.err, g.calls, st, g.cache)
                 ELSE Res(StatusOK, g.b, g.calls, st, g.cache)
         [] r.method = "GET" /\ key = "" ->
              LET g == getAllJSON(cachekey, kvpairs, st, c, o)
              IN IF g.err # Nil THEN Panic(g.err, g.calls, st, g.cache)
                 ELSE Res(StatusOK, g.b, g.calls, st, g.cache)
         [] r.method = "PUT" /\ key # "" ->
              LET p == ModelPut(st, kvpairs, r.body.value)
                  log == <<Call("Model.Put", key, p.err = Nil)>>
              IN IF ~Decodes(r.body) THEN Panic(ErrDecode, <<>>, st, c)
                 ELSE IF p.err # Nil THEN Panic(p.err, log, st, c)
                 ELSE Res(StatusOK, JSONMsg(SUCCESS), log, p.store, c)
         [] r.method = "PUT" /\ key = "" ->
              Panic(ErrNotImplemented, <<>>, st, c)
         [] r.method = "PATCH" /\ key # "" -> patch1(r, kvpairs, st, c)
         [] r.method = "POST" /\ key = "" ->
              LET p == ModelPost(st, r.body.id, r.body.value)
                  log == <<Call("Model.Post", r.body.id, p.err = Nil)>>
              IN IF ~Decodes(r.body) THEN Panic(ErrDecode, <<>>, st, c)
                 ELSE IF p.err # Nil THEN Panic(p.err, log, st, c)
                 ELSE Res(StatusOK, JSONId(p.id), log, p.store, c)
         [] r.method = "DELETE" /\ key # "" ->
              LET d == ModelDelete(st, kvpairs)
                  log == <<Call("Model.Delete", key, d.err = Nil)>>
              IN IF d.err # Nil THEN Panic(d.err, log, st, c)
                 ELSE Res(StatusOK, JSONMsg(SUCCESS), log, d.store, c)
         [] OTHER -> Panic(ErrNotImplemented, <<>>, st, c)


----------------------------------------------------------------------------
(* The handler of calm.go:471-955 (variant "getCacheKey") *)

(* errorHandler (calm.go:792) *)
errorHandler(err, log, st, c) ==
    IF err = ErrNotFound THEN Res(StatusNotFound, JSONMsg(NotFound), log, st, c)
    ELSE IF err = ErrNotImplemented
    THEN Res(StatusNotImplemented, JSONMsg(NotImplemented), log, st, c)
    ELSE Res(StatusBadRequest, JSONMsg(err), log, st, c)

(* the Cache.Set at the end of getJSON / getAllJSON: [calls, cache] *)
cacheSet2(c, key, value, up, log) ==
    [calls |-> Append(log, Call("Cache.Set", key, SetStores(c, key, up))),
     cache |-> CachePut(c, key, value, up)]

\* mutant: a read that found nothing is answered with null and cached
getJSONCacheNull(keys, kvpairs, st, c, o) ==
    LET cacheKey == getCacheKey(keys, kvpairs)
        value == IF Expiration # 0 THEN cacheGet(c, cacheKey, o.getUp) ELSE Nil
        log1 == IF Expiration # 0
                THEN <<Call("Cache.Get", cacheKey, value # Nil)>> ELSE <<>>
        g == GetOutcome(st, kvpairs, o)
        log2 == Append(log1, GetCall(st, kvpairs, o))
        v == IF g.v = Nil THEN "null" ELSE g.v
        set == cacheSet2(c, cacheKey, v, o.setUp, log2)
    IN IF value # Nil
       THEN [b |-> value, err |-> Nil, calls |-> log1, cache |-> c]
       ELSE IF g.err # Nil
       THEN [b |-> Nil, err |-> g.err, calls |-> log2, cache |-> c]
       ELSE IF Expiration = 0
       THEN [b |-> v, err |-> Nil, calls |-> log2, cache |-> c]
       ELSE [b |-> v, err |-> Nil, calls |-> set.calls, cache |-> set.cache]

(* getJSON (calm.go:631): [b, err, calls, cache] *)
getJSON(keys, kvpairs, st, c, o) ==
    LET cacheKey == getCacheKey(keys, kvpairs)
        value == IF Expiration # 0 THEN cacheGet(c, cacheKey, o.getUp) ELSE Nil
        log1 == IF Expiration # 0
                THEN <<Call("Cache.Get", cacheKey, value # Nil)>> ELSE <<>>
        g == GetOutcome(st, kvpairs, o)
        log2 == Append(log1, GetCall(st, kvpairs, o))
        set == cacheSet2(c, cacheKey, g.v, o.setUp, log2)
    IN IF value # Nil
       THEN [b |-> value, err |-> Nil, calls |-> log1, cache |-> c]
       ELSE IF g.err # Nil
       THEN [b |-> Nil, err |-> g.err, calls |-> log2, cache |-> c]
       ELSE IF g.v = Nil
       THEN [b |-> Nil, err |-> Nil, calls |-> log2, cache |-> c]
       ELSE IF Expiration = 0
       THEN [b |-> g.v, err |-> Nil, calls |-> log2, cache |-> c]
       ELSE [b |-> g.v, err |-> Nil, calls |-> set.calls, cache |-> set.cache]

(* getAllJSON (calm.go:670) with the Model's channel read to its close *)
getAllJSON2(keys, kvpairs, st, c, o) ==
    LET cacheKey == getCacheKey(keys, kvpairs)
        value == IF Expiration # 0 THEN cacheGet(c, cacheKey, o.getUp) ELSE Nil
        log1 == IF Expiration # 0
                THEN <<Call("Cache.Get", cacheKey, value # Nil)>> ELSE <<>>
        log2 == Append(log1, Call("Model.GetAll", "", TRUE))
        b == ArrayJSON(st, o.order)
        set == cacheSet2(c, cacheKey, b, o.setUp, log2)
    IN IF value # Nil
       THEN [b |-> value, err |-> Nil, calls |-> log1, cache |-> c]
       ELSE IF o.none     \* Model.GetAll returned (nil, nil)
       THEN [b |-> Nil, err |-> Nil,
             calls |-> Append(log1, CallNone("Model.GetAll", "")), cache |-> c]
       ELSE IF Expiration = 0
       THEN [b |-> b, err |-> Nil, calls |-> log2, cache |-> c]
       ELSE [b |-> b, err |-> Nil, calls |-> set.calls, cache |-> set.cache]

\* mutant: only the `list all' entry is deleted
deleteCacheListOnly(keys, kvpairs, c, o, log) ==
    LET allKey == getCacheKey(keys, KVSet(kvpairs, Key, ""))
    IN [calls |-> Append(log, Call("Cache.Delete", allKey, o.del2Up)),
        cache |-> CacheDelete(c, allKey, o.del2Up)]

(* deleteCache (calm.go:770): [calls, cache] *)
deleteCache(keys, kvpairs, c, o, log) ==
    LET cacheKey == getCacheKey(keys, kvpairs)
        c1 == CacheDelete(c, cacheKey, o.delUp)
        log1 == Append(log, Call("Cache.Delete", cacheKey, o.delUp))
        m == KVSet(kvpairs, Key, "")
        allKey == getCacheKey(keys, m)
    IN IF KVGet(kvpairs, Key) = "" THEN [calls |-> log1, cache |-> c1]
       ELSE [calls |-> Append(log1, Call("Cache.Delete", allKey, o.del2Up)),
             cache |-> CacheDelete(c1, allKey, o.del2Up)]

\* mutant: the cache is invalidated whatever Expiration is
InvalidateAlways(keys, kvpairs, c, o, log) == deleteCache(keys, kvpairs, c, o, log)

(* the `if h.Expiration != 0 { h.deleteCache(keys, kvpairs) }` of ServeHTTP *)
Invalidate(keys, kvpairs, c, o, log) ==
    IF Expiration # 0 THEN deleteCache(keys, kvpairs, c, o, log)
    ELSE [calls |-> log, cache |-> c]

\* mutant: the cache is invalidated before the result of Model.Put is seen
put2Eager(r, kvpairs, keys, st, c, o) ==
    LET p == ModelPut(st, kvpairs, r.body.value)
        log == <<Call("Model.Put", KVGet(kvpairs, Key), p.err = Nil)>>
        d == Invalidate(keys, kvpairs, c, o, log)
    IN IF ~Decodes(r.body) THEN errorHandler(ErrDecode, <<>>, st, c)
       ELSE IF p.err # Nil THEN errorHandler(p.err, d.calls, st, d.cache)
       ELSE Res(StatusOK, JSONMsg(SUCCESS), d.calls, p.store, d.cache)

\* mutant: a Cache.Delete that fails fails the PUT
put2DeleteFatal(r, kvpairs, keys, st, c, o) ==
    LET p == ModelPut(st, kvpairs, r.body.value)
        log == <<Call("Model.Put", KVGet(kvpairs, Key), p.err = Nil)>>
        d == Invalidate(keys, kvpairs, c, o, log)
    IN IF ~Decodes(r.body) THEN errorHandler(ErrDecode, <<>>, st, c)
       ELSE IF p.err # Nil THEN errorHandler(p.err, log, st, c)
       ELSE IF \E i \in 1..Len(d.calls) :
                   d.calls[i].op = "Cache.Delete" /\ ~d.calls[i].ok
       THEN errorHandler("memcache", d.calls, p.store, d.cache)
       ELSE Res(StatusOK, JSONMsg(SUCCESS), d.calls, p.store, d.cache)

(* ServeHTTP, case PUT with a key (calm.go:875) *)
put2(r, kvpairs, keys, st, c, o) ==
    LET p == ModelPut(st, kvpairs, r.body.value)
        log == <<Call("Model.Put", KVGet(kvpairs, Key), p.err = Nil)>>
        d == Invalidate(keys, kvpairs, c, o, log)
    IN IF ~Decodes(r.body) THEN errorHandler(ErrDecode, <<>>, st, c)
       ELSE IF p.err # Nil THEN errorHandler(p.err, log, st, c)
       ELSE Res(StatusOK, JSONMsg(SUCCESS), d.calls, p.store, d.cache)

(* ServeHTTP (calm.go:803) past the Accept check *)
Serve2(r, st, c, o) ==
    LET kvpairs == Merged(r)
        keys == SortedKeys(kvpairs)
        key == KVGet(kvpairs, Key)
    IN CASE r.method = "GET" /\ key # "" ->
              LET g == getJSON(keys, kvpairs, st, c, o)
              IN IF g.err # Nil THEN errorHandler(g.err, g.calls, st, g.cache)
                 ELSE IF g.b = Nil
                 THEN Res(StatusNotFound, JSONMsg(NotFound), g.calls, st, g.cache)
                 ELSE Res(StatusOK, g.b, g.calls, st, g.cache)
         [] r.method = "GET" /\ key = "" ->
              LET g == getAllJSON2(keys, kvpairs, st, c, o)
              IN IF g.err # Nil THEN errorHandler(g.err, g.calls, st, g.cache)
                 ELSE IF g.b = Nil
                 THEN Res(StatusNotFound, JSONMsg(NotFound), g.calls, st, g.cache)
                 ELSE Res(StatusOK, g.b, g.calls, st, g.cache)
         [] r.method = "PUT" /\ key # "" -> put2(r, kvpairs, keys, st, c, o)
         [] r.method = "PUT" /\ key = "" ->
              errorHandler(ErrNotImplemented, <<>>, st, c)
         [] r.method = "PATCH" /\ key # "" ->
              LET p == ModelPut(st, kvpairs, r.body.value)
                  log == <<Call("Model.Patch", key, p.err = Nil)>>
                  d == Invalidate(keys, kvpairs, c, o, log)
              \* a JSON patch document is an array: readJSON into the struct fails
              IN IF ~Decodes(r.body) \/ r.body \in PatchDocs
                 THEN errorHandler(ErrDecode, <<>>, st, c)
                 ELSE IF p.err # Nil THEN errorHandler(p.err, log, st, c)
                 ELSE Res(StatusOK, JSONMsg(SUCCESS), d.calls, p.store, d.cache)
         [] r.method = "POST" /\ key = "" ->
              LET p == ModelPost(st, r.body.id, r.body.value)
                  log == <<Call("Model.Post", r.body.id, p.err = Nil)>>
                  d == Invalidate(keys, kvpairs, c, o, log)
              IN IF ~Decodes(r.body) THEN errorHandler(ErrDecode, <<>>, st, c)
                 ELSE IF p.err # Nil THEN errorHandler(p.err, log, st, c)
                 ELSE Res(StatusOK, JSONId(p.id), d.calls, p.store, d.cache)
         [] r.method = "DELETE" /\ key # "" ->
              LET x == ModelDelete(st, kvpairs)
                  log == <<Call("Model.Delete", key, x.err = Nil)>>
                  d == Invalidate(keys, kvpairs, c, o, log)
              IN IF x.err # Nil THEN errorHandler(x.err, log, st, c)
                 ELSE Res(StatusOK, JSONMsg(SUCCESS), d.calls, x.store, d.cache)
         [] r.method = "DELETE" /\ key = "" ->
              errorHandler(ErrNotImplemented, <<>>, st, c)
         [] OTHER ->
              Res(StatusBadRequest, JSONMsg(Unsupported), <<>>, st, c)


----------------------------------------------------------------------------
(* Requests *)

Queries == {<<>>, <<<<"a", "0">>>>}

BodyNone == [ok |-> FALSE, id |-> "", value |-> ""]

Bodies(method) ==
    CASE method = "PUT" ->
             {BodyNone} \cup {[ok |-> TRUE, id |-> "", value |-> v] : v \in Values}
      [] method = "PATCH" ->
             {BodyNone} \cup PatchDocs
                 \cup {[ok |-> TRUE, id |-> "", value |-> v] : v \in Values}
      [] method = "POST" ->
             {BodyNone} \cup {[ok |-> TRUE, id |-> k, value |-> "x"] : k \in Keys}
      [] OTHER -> {BodyNone}

Requests ==
    {[method |-> m, path |-> p, keyGroup |-> g, query |-> q, accept |-> a, body |-> b] :
        m \in Methods, p \in Paths, g \in BOOLEAN, q \in Queries,
        a \in AcceptHeaders, b \in UNION {Bodies(mm) : mm \in Methods}}

ValidRequest(r) ==
    /\ r.body \in Bodies(r.method)
    /\ r.keyGroup \/ r.path = "/"

NoRequest ==
    [method |-> "", path |-> "", keyGroup |-> FALSE, query |-> <<>>,
     accept |-> <<>>, body |-> BodyNone]

NoResponse == [status |-> 0, body |-> ""]

Outcomes == [getUp : BOOLEAN, setUp : BOOLEAN, delUp : BOOLEAN, del2Up : BOOLEAN,
             order : Orders, none : BOOLEAN]

(* the cache key the read path of the running variant uses for r *)
ReadKey(r) ==
    IF variant = "makeKey" THEN makeKey(r)
    ELSE getCacheKey(SortedKeys(Merged(r)), Merged(r))

\* mutant: a HEAD request is dispatched as a GET
HandleHeadAsGet(r, st, c, o) ==
    LET g == IF r.method = "HEAD" THEN [r EXCEPT !.method = "GET"] ELSE r
    IN IF ~AcceptOK(r.accept)
       THEN Res(StatusNotAcceptable,
                JSONMsg("Supported Content-Type: application/json"), <<>>, st, c)
       ELSE IF variant = "makeKey" THEN Serve1(g, st, c, o)
       ELSE Serve2(g, st, c, o)

\* mutant: the Accept header is looked at after the dispatch
HandleLate(r, st, c, o) ==
    LET res == IF variant = "makeKey" THEN Serve1(r, st, c, o) ELSE Serve2(r, st, c, o)
    IN IF ~AcceptOK(r.accept)
       THEN [res EXCEPT !.status = StatusNotAcceptable,
                        !.body = JSONMsg("Supported Content-Type: application/json")]
       ELSE res

\* mutant: the Content-Type is set where the body of a success is written
ContentTypeOnSuccess(r, res) ==
    IF res.status = StatusOK THEN <<JSON_UTF8>> ELSE <<>>

(* ServeHTTP (calm.go:345, 810): header.Set("Content-Type", ...) is the     *)
(* first statement after the deferred recover, whatever the request is and *)
(* whatever becomes of it                                                  *)
ContentType(r, res) == <<JSON_UTF8>>

(* ServeHTTP: 406 before any other work, else the variant's dispatch *)
Handle(r, st, c, o) ==
    IF ~AcceptOK(r.accept)
    THEN Res(StatusNotAcceptable,
             JSONMsg("Supported Content-Type: application/json"), <<>>, st, c)
    ELSE IF variant = "makeKey" THEN Serve1(r, st, c, o)
    ELSE Serve2(r, st, c, o)

----------------------------------------------------------------------------
(* History of the sequence GET k ; PUT k or DELETE k ; GET k *)

NoScen == [phase |-> 0, kv |-> EmptyMap, ck |-> "", old |-> "", mut |-> "",
           inval |-> FALSE]

NoFollow == [mut |-> "", inval |-> FALSE, ck |-> "", old |-> ""]

IsSingleGet(r) ==
    r.method = "GET" /\ AcceptOK(r.accept) /\ KVGet(Merged(r), Key) # ""

ScenNext(r, res, o) ==
    IF IsSingleGet(r) /\ res.status = StatusOK /\ CacheHas(res.cache, ReadKey(r))
    THEN [phase |-> 1, kv |-> Merged(r), ck |-> ReadKey(r),
          old |-> res.cache[ReadKey(r)], mut |-> "", inval |-> FALSE]
    ELSE IF /\ scen.phase = 1
            /\ r.method \in {"PUT", "DELETE"}
            /\ AcceptOK(r.accept)
            /\ Merged(r) = scen.kv
            /\ res.status = StatusOK
    THEN [scen EXCEPT !.phase = 2, !.mut = r.method, !.inval = o.delUp /\ o.del2Up]
    ELSE NoScen

(* History of the sequence PUT k ; next request *)
NoPut == [kv |-> EmptyMap, value |-> "", age |-> 2]

PutNext(r, res) ==
    IF r.method = "PUT" /\ res.status = StatusOK
    THEN [kv |-> Merged(r), value |-> r.body.value, age |-> 0]
    ELSE IF lastPut.age = 0 THEN [lastPut EXCEPT !.age = 1]
    ELSE NoPut

FollowNext(r) ==
    IF scen.phase = 2 /\ IsSingleGet(r) /\ Merged(r) = scen.kv
    THEN [mut |-> scen.mut, inval |-> scen.inval, ck |-> scen.ck, old |-> scen.old]
    ELSE NoFollow

----------------------------------------------------------------------------
(* The parts of the state each specification leaves at rest *)

NoOut == [b |-> Nil, err |-> Nil]

KeysIdle == r1 = NoRequest /\ r2 = NoRequest /\ k1 = Nil /\ k2 = Nil

StreamIdle ==
    /\ items = <<>>
    /\ sent = 0
    /\ ppc = "idle"
    /\ cpc = "idle"
    /\ buf = ""
    /\ out = NoOut

NoPanic == [kind |-> "", code |-> 0, msg |-> ""]

NoMockRequest ==
    [handler |-> "", id |-> "", body |-> BodyNone, panic |-> NoPanic,
     wrapped |-> FALSE]

NoMockResponse == [status |-> 0, body |-> "", escaped |-> NoPanic, ctype |-> <<>>]

MockIds == {"1", "2"}

MockIdle ==
    /\ mock = [i \in MockIds |-> Absent]
    /\ hpc = "idle"
    /\ hreq = NoMockRequest
    /\ hres = NoMockResponse

NoRouterRequest == [kind |-> "", path |-> "", router |-> 0]

NoRouterResponse == [status |-> 0, allow |-> <<>>, intros |-> <<>>]

RouterIdle ==
    /\ routers = <<>>
    /\ rpc = "idle"
    /\ rreq = NoRouterRequest
    /\ rres = NoRouterResponse

NoWrite == [status |-> 0, len |-> 0]

SizeIdle == size = 0 /\ wrote = NoWrite

MergeIdle == kv1 = EmptyMap /\ mpc = "idle"

Procs == {"get", "put"}

NoProc == [sup |-> "", key |-> "", pc |-> "new", b |-> Nil]

RaceIdle == pathParameters = "" /\ proc = [p \in Procs |-> NoProc]

WriteIdle == writes = <<>>

OtherIdle == SizeIdle /\ MergeIdle /\ RaceIdle /\ WriteIdle

HandlerAtRest ==
    /\ dataStore = [k \in Keys |-> Absent]
    /\ cache = EmptyMap
    /\ pc = "idle"
    /\ req = NoRequest
    /\ resp = NoResponse
    /\ calls = <<>>
    /\ scen = NoScen
    /\ follows = NoFollow
    /\ served = 0
    /\ lastPut = NoPut
    /\ header = <<>>

HandlerIdle == Expiration = 0 /\ HandlerAtRest

----------------------------------------------------------------------------
(* The state machine: one request at a time *)

Init ==
    /\ variant \in {"makeKey", "getCacheKey"}
    /\ Expiration \in {0, 1}
    /\ dataStore \in InitStores
    /\ cache = EmptyMap
    /\ pc = "idle"
    /\ req = NoRequest
    /\ resp = NoResponse
    /\ calls = <<>>
    /\ scen = NoScen
    /\ follows = NoFollow
    /\ served = 0
    /\ lastPut = NoPut
    /\ header = <<>>
    /\ KeysIdle
    /\ StreamIdle
    /\ MockIdle
    /\ RouterIdle
    /\ OtherIdle

(* what the environment decides during one request: whether each memcache *)
(* call goes through, and the order in which GetAll's producer sends.     *)
(* Only the choices the request can observe are enumerated.               *)
OutcomesFor(r) ==
    {o \in Outcomes :
        /\ (r.method # "GET" \/ ~AcceptOK(r.accept) \/ Expiration = 0)
               => (o.getUp /\ o.setUp)
        /\ (r.method = "GET" \/ ~AcceptOK(r.accept) \/ Expiration = 0
               \/ variant = "makeKey")
               => (o.delUp /\ o.del2Up)
        /\ (r.method # "GET" \/ ~AcceptOK(r.accept) \/ KVGet(Merged(r), Key) # "")
               => o.order = <<"0", "1">>
        \* the backend finds nothing: the item is missing, the store is empty
        /\ o.none =>
               /\ r.method = "GET" /\ AcceptOK(r.accept)
               /\ \A k \in Keys :
                      KVGet(Merged(r), Key) \in {"", k} => dataStore[k] = Absent}

(* RESTHandler.ServeHTTP(w, r, kvpairs), the whole handler *)
ServeHTTP ==
    /\ pc = "idle"
    /\ served < MaxRequests
    /\ served' = served + 1
    /\ \E r \in Requests :
          /\ ValidRequest(r)
          /\ \E o \in OutcomesFor(r) :
                LET res == Handle(r, dataStore, cache, o)
                IN /\ req' = r
                   /\ resp' = [status |-> res.status, body |-> res.body]
                   /\ calls' = res.calls
                   /\ dataStore' = res.store
                   /\ cache' = res.cache
                   /\ scen' = ScenNext(r, res, o)
                   /\ follows' = FollowNext(r)
                   /\ lastPut' = PutNext(r, res)
                   /\ header' = ContentType(r, res)
    /\ pc' = "done"
    /\ UNCHANGED <<variant, routerVars, otherVars, Expiration, keyVars, streamVars, mockVars>>

(* the response is delivered; kvpairs and the response are per request *)
Complete ==
    /\ pc = "done"
    /\ pc' = "idle"
    /\ req' = NoRequest
    /\ resp' = NoResponse
    /\ calls' = <<>>
    /\ follows' = NoFollow
    /\ lastPut' = (IF lastPut.age = 1 THEN NoPut ELSE lastPut)
    /\ header' = <<>>
    /\ UNCHANGED <<variant, routerVars, otherVars, Expiration, dataStore, cache, scen, served>>
    /\ UNCHANGED <<keyVars, streamVars, mockVars>>

(* memcache drops an entry whose Expiration seconds have passed *)
Expire ==
    /\ pc = "idle"
    /\ \E k \in DOMAIN cache : cache' = [n \in DOMAIN cache \ {k} |-> cache[n]]
    /\ UNCHANGED <<variant, routerVars, otherVars, Expiration, dataStore, pc, req, resp, calls, scen,
                   follows, served, lastPut, header, keyVars, streamVars,
                   mockVars>>

Next == ServeHTTP \/ Complete \/ Expire

Spec == Init /\ [][Next]_vars


----------------------------------------------------------------------------
(* The cache key computation on its own: two GET requests are drawn, and   *)
(* each gets its key the way ServeHTTP computes it.                        *)

KeyQueries ==
    { <<>>,
      <<<<"a", "0">>>>, <<<<"key", "1">>>>, <<<<"key", "">>>>,
      <<<<"key", "0_1">>>>,
      <<<<"a", "0">>, <<"key", "1">>>>, <<<<"key", "1">>, <<"a", "0">>>>,
      <<<<"a", "0">>, <<"key", "">>>>, <<<<"key", "">>, <<"a", "0">>>> }

KeyRequests ==
    {[method |-> "GET", path |-> p, keyGroup |-> g, query |-> q,
      accept |-> <<>>, body |-> BodyNone] :
        p \in Paths, g \in BOOLEAN, q \in KeyQueries}

(* the cache key ServeHTTP hands to the read path for r, the map having    *)
(* been ranged over in the order ord                                       *)
CacheKeyOf(r, ord) ==
    IF variant = "makeKey" THEN makeKey(r)
    ELSE getCacheKey(sortStrings(ord), Merged(r))

InitKeys ==
    /\ variant \in {"makeKey", "getCacheKey"}
    /\ r1 \in {r \in KeyRequests : ValidRequest(r)}
    /\ r2 \in {r \in KeyRequests : ValidRequest(r)}
    /\ k1 = Nil
    /\ k2 = Nil
    /\ HandlerIdle
    /\ StreamIdle
    /\ MockIdle
    /\ RouterIdle
    /\ OtherIdle

KeyFor1 ==
    /\ k1 = Nil
    /\ \E ord \in MapOrders(Merged(r1)) : k1' = CacheKeyOf(r1, ord)
    /\ UNCHANGED <<variant, routerVars, otherVars, handlerVars, r1, r2, k2, streamVars, mockVars>>

KeyFor2 ==
    /\ k2 = Nil
    /\ \E ord \in MapOrders(Merged(r2)) : k2' = CacheKeyOf(r2, ord)
    /\ UNCHANGED <<variant, routerVars, otherVars, handlerVars, r1, r2, k1, streamVars, mockVars>>

NextKeys == KeyFor1 \/ KeyFor2

SpecKeys == InitKeys /\ [][NextKeys]_vars

----------------------------------------------------------------------------
(* getAllJSON reading the channel Model.GetAll returns.  The channel is    *)
(* unbuffered: a send completes only together with a receive.  The         *)
(* producer goroutine sends items[1..Len(items)] and then closes.          *)

ErrItem == "error"               \* an item that is an error value
ErrItem2 == "error2"             \* another error value
BadItem == "unmarshalable"       \* an item json.Marshal rejects
OkItem == "x"                    \* an item that marshals, to itself
OkItem2 == "y"                   \* another one
ErrItems == {ErrItem, ErrItem2}
StreamItems == {OkItem, OkItem2, ErrItem, ErrItem2, BadItem}
ErrMarshal == "json.Marshal"     \* a plain error

ItemSeqs == UNION {[1..n -> StreamItems] : n \in 0..MaxItems}

(* where `return` takes getAllJSON: calm.go defers a drain of the channel, *)
(* part_001 returns at once                                                *)
Leave == IF variant = "mckey" THEN "returned" ELSE "drain"

InitStream ==
    /\ variant \in {"makeKey", "getCacheKey", "mckey"}
    /\ items \in ItemSeqs
    /\ sent = 0
    /\ ppc = "idle"
    /\ cpc = "idle"
    /\ buf = ""
    /\ out = NoOut
    /\ Expiration \in {0, 1}
    /\ HandlerAtRest
    /\ KeysIdle
    /\ MockIdle
    /\ RouterIdle
    /\ OtherIdle

(* the cache key getAllJSON is given (calm.go), or Name__all (part_001) *)
StreamKey == "all"

(* part_001 reads and writes memcache whatever Expiration is *)
StreamCaches == variant = "mckey" \/ Expiration # 0

streamRest == <<Expiration, dataStore, req, scen, follows, served, lastPut, header>>

(* the cache missed; v, err := h.Model.GetAll(kvpairs): the channel is     *)
(* made, the producer goroutine started, and '[' written                   *)
GetAll ==
    /\ cpc = "idle"
    /\ ppc' = "running"
    /\ cpc' = "range"
    /\ buf' = "["
    /\ calls' = (IF StreamCaches
                 THEN <<Call("Cache.Get", StreamKey, FALSE)>> ELSE <<>>)
                \o <<Call("Model.GetAll", "", TRUE)>>
    /\ UNCHANGED <<variant, routerVars, otherVars, streamRest, cache, pc, resp, keyVars,
                   mockVars, items, sent, out>>

\* mutant: an item is written to the buffer without its separator
SeparateNot(b) == b

(* if i != 0 { buf.WriteByte(',') }: i counts the items written so far *)
Separate(b) == IF b # "[" THEN b \o "," ELSE b

\* mutant: the array read so far is cached when the read fails
StreamSetAlways(value, failed, up) ==
    cacheSet2(cache, StreamKey, value, up, calls)

(* the end of getAllJSON: nothing is set on an early return; otherwise     *)
(* cacheSet (calm.go:205) or Cache.Set (calm.go:755, part_001:448) when    *)
(* the handler caches: [calls, cache]                                      *)
StreamSet(value, failed, up) ==
    IF failed \/ ~StreamCaches THEN [calls |-> calls, cache |-> cache]
    ELSE IF variant = "makeKey" THEN cacheSet(cache, StreamKey, value, up, calls)
    ELSE cacheSet2(cache, StreamKey, value, up, calls)

(* one turn of `for vv := range c`, meeting the producer's send *)
Recv ==
    /\ cpc = "range" /\ ppc = "running" /\ sent < Len(items)
    /\ sent' = sent + 1
    /\ LET vv == items[sent + 1]
       IN IF vv \in ErrItems      \* err, ok := vv.(error)
          THEN /\ out' = [b |-> Nil, err |-> vv]
               /\ cpc' = Leave
               /\ buf' = buf
          ELSE IF vv = BadItem
          THEN /\ out' = [b |-> Nil, err |-> ErrMarshal]
               /\ cpc' = Leave
               /\ buf' = Separate(buf)
          ELSE /\ buf' = Separate(buf) \o vv
               /\ UNCHANGED <<out, cpc>>
    /\ \E up \in BOOLEAN :
           LET set == StreamSet(buf', out'.err # Nil, up)
           IN IF cpc' = "range"
              THEN UNCHANGED <<calls, cache>>
              ELSE calls' = set.calls /\ cache' = set.cache
    /\ UNCHANGED <<variant, routerVars, otherVars, streamRest, pc, resp, keyVars, mockVars,
                   items, ppc>>

(* the producer, all its sends done, closes the channel *)
Close ==
    /\ ppc = "running" /\ sent = Len(items)
    /\ ppc' = "closed"
    /\ UNCHANGED <<variant, routerVars, otherVars, handlerVars, keyVars, mockVars, items, sent, cpc, buf, out>>

(* the range loop ends on the closed channel: ']', the Set, return b, nil *)
RangeEnd ==
    /\ cpc = "range" /\ ppc = "closed"
    /\ buf' = buf \o "]"
    /\ out' = [b |-> buf', err |-> Nil]
    /\ cpc' = Leave
    /\ \E up \in BOOLEAN :
           LET set == StreamSet(buf', FALSE, up)
           IN calls' = set.calls /\ cache' = set.cache
    /\ UNCHANGED <<variant, routerVars, otherVars, streamRest, pc, resp, keyVars, mockVars,
                   items, sent, ppc>>

(* one turn of the deferred `for _ = range c {}` *)
DrainRecv ==
    /\ cpc = "drain" /\ ppc = "running" /\ sent < Len(items)
    /\ sent' = sent + 1
    /\ UNCHANGED <<variant, routerVars, otherVars, handlerVars, keyVars, mockVars, items, ppc, cpc, buf, out>>

(* the deferred loop ends on the closed channel and getAllJSON returns *)
DrainEnd ==
    /\ cpc = "drain" /\ ppc = "closed"
    /\ cpc' = "returned"
    /\ UNCHANGED <<variant, routerVars, otherVars, handlerVars, keyVars, mockVars, items, sent, ppc, buf, out>>

(* the GET case of ServeHTTP once getAllJSON has returned: b is written,   *)
(* or panic(err) reaches the deferred recover (calm.go:330) or err goes    *)
(* to errorHandler (calm.go:792); the recover of part_001 calls            *)
(* log.Panicln, which panics again before anything is written              *)
Respond ==
    /\ cpc = "returned" /\ pc = "idle"
    /\ pc' = "done"
    /\ resp' = IF out.err = Nil
               THEN [status |-> StatusOK, body |-> out.b]
               ELSE IF variant = "makeKey"
               THEN [status |-> RecoverStatus(out.err),
                     body |-> JSONMsg(RecoverMessage(out.err))]
               ELSE IF variant = "getCacheKey"
               THEN [status |-> StatusBadRequest, body |-> JSONMsg(out.err)]
               ELSE NoResponse
    /\ UNCHANGED <<variant, routerVars, otherVars, streamRest, cache, calls, keyVars,
                   streamVars, mockVars>>

NextStream ==
    GetAll \/ Recv \/ Close \/ RangeEnd \/ DrainRecv \/ DrainEnd \/ Respond

SpecStream == InitStream /\ [][NextStream]_vars

----------------------------------------------------------------------------
(* The recovery points: ErrorHandler (helpers.go) around the handlers of   *)
(* MockModel and around a handler that panics, and the deferred recover of *)
(* RESTHandler.ServeHTTP (calm.go:330) around a Model that panics.         *)

(* panic values: kind is the dynamic type of the value *)
PanicOf(kind, code, msg) == [kind |-> kind, code |-> code, msg |-> msg]

HTTPError(code, msg) == PanicOf("HTTPError", code, msg)

(* the values a handler may panic with *)
PanicValues ==
    { HTTPError(StatusBadRequest, "Test error"),
      PanicOf("*HTTPError", StatusNotFound, "Not found"),
      PanicOf("*Error", StatusNotFound, NOT_FOUND),
      PanicOf("error", 0, "boom"),
      PanicOf("other", 0, "boom") }

(* r.(error): every kind but "other" implements error *)
IsError(p) == p.kind \in {"HTTPError", "*HTTPError", "*Error", "error"}

(* err.Error() *)
ErrorText(p) ==
    IF p.kind \in {"HTTPError", "*HTTPError"}
    THEN ToString(p.code) \o " " \o p.msg
    ELSE IF p.kind = "*Error" THEN ToString(p.code) \o ": " \o p.msg
    ELSE p.msg

(* json of HTTPError{StatusCode, Message} *)
HTTPErrorJSON(code, msg) ==
    "{statusCode:" \o ToString(code) \o ",message:" \o msg \o "}"

MockJSON(id, title) == "{id:" \o id \o ",title:" \o title \o "}"

MockBodies ==
    {BodyNone} \cup
    {[ok |-> TRUE, id |-> i, value |-> t] :
        i \in MockIds \cup {""}, t \in {"a", "b"}}

(* what a handler leaves behind: a panic, or a written response *)
Panicked(p, st) == [panic |-> p, status |-> 0, body |-> "", store |-> st]

Written(status, body, st) ==
    [panic |-> NoPanic, status |-> status, body |-> body, store |-> st]

(* ReadJSON (helpers.go:12) *)
ReadJSONPanic == HTTPError(StatusBadRequest, ErrDecode)

(* MockModel.Get (mockModel.go:62) *)
MockGet(st, id) ==
    IF st[id] = Absent THEN Panicked(HTTPError(StatusNotFound, NotFound), st)
    ELSE Written(StatusOK, MockJSON(id, st[id]), st)

(* MockModel.Put (mockModel.go:74) *)
MockPut(st, id, body) ==
    IF st[id] = Absent THEN Panicked(HTTPError(StatusNotFound, NotFound), st)
    ELSE IF ~Decodes(body) THEN Panicked(ReadJSONPanic, st)
    ELSE Written(StatusOK, MockJSON(id, body.value),
                 [st EXCEPT ![id] = body.value])

(* MockModel.Post (mockModel.go:26) *)
MockPost(st, body) ==
    IF ~Decodes(body) THEN Panicked(ReadJSONPanic, st)
    ELSE IF body.id = ""
    THEN Panicked(HTTPError(StatusBadRequest, "Missing field id"), st)
    ELSE IF st[body.id] # Absent
    THEN Panicked(HTTPError(StatusConflict, ErrExists), st)
    ELSE Written(StatusCreated, "", [st EXCEPT ![body.id] = body.value])

(* MockModel.Delete (mockModel.go:90) *)
MockDelete(st, id) ==
    IF st[id] = Absent THEN Panicked(HTTPError(StatusNotFound, NotFound), st)
    ELSE Written(StatusNoContent, "", [st EXCEPT ![id] = Absent])

(* MockModel.GetAll (mockModel.go:17): the objects in the order of ids *)
MockGetAll(st) ==
    Written(StatusOK,
            "[" \o (IF st["1"] # Absent THEN MockJSON("1", st["1"]) ELSE "")
                \o (IF st["1"] # Absent /\ st["2"] # Absent THEN "," ELSE "")
                \o (IF st["2"] # Absent THEN MockJSON("2", st["2"]) ELSE "")
                \o "]", st)

(* causeError (unit_test.go:113): a handler that panics with a value *)
causeError(st, p) == Panicked(p, st)

MockRequests ==
    {[handler |-> h, id |-> i, body |-> b, panic |-> p, wrapped |-> t] :
        h \in {"GetAll", "Post", "Get", "Put", "Delete", "causeError"},
        i \in MockIds \cup {""}, b \in MockBodies,
        p \in PanicValues \cup {NoPanic}, t \in BOOLEAN}

ValidMockRequest(r) ==
    /\ (r.handler \in {"Get", "Put", "Delete"}) = (r.id # "")
    /\ r.handler \notin {"Put", "Post"} => r.body = BodyNone
    /\ (r.handler = "causeError") = (r.panic # NoPanic)

(* the handler the router picks for the request *)
MockHandle(r, st) ==
    CASE r.handler = "GetAll" -> MockGetAll(st)
      [] r.handler = "Post" -> MockPost(st, r.body)
      [] r.handler = "Get" -> MockGet(st, r.id)
      [] r.handler = "Put" -> MockPut(st, r.id, r.body)
      [] r.handler = "Delete" -> MockDelete(st, r.id)
      [] OTHER -> causeError(st, r.panic)

(* Error (helpers.go:61) *)
Error(msg, code) ==
    [status |-> code, body |-> HTTPErrorJSON(code, msg), escaped |-> NoPanic]

(* handleError (helpers.go:69) *)
handleError(p) ==
    IF p.kind \in {"HTTPError", "*HTTPError"} THEN Error(p.msg, p.code)
    ELSE Error(ErrorText(p), StatusInternalServerError)

(* ErrorHandler (helpers.go:81): the deferred recover around h.ServeHTTP;  *)
(* a recovered value that is no error is panicked again                    *)
ErrorHandler(ho) ==
    IF ho.panic = NoPanic
    THEN [status |-> ho.status, body |-> ho.body, escaped |-> NoPanic]
    ELSE IF IsError(ho.panic) THEN handleError(ho.panic)
    ELSE [status |-> 0, body |-> "", escaped |-> ho.panic]

(* the deferred recover of RESTHandler.ServeHTTP (calm.go:330) *)
recoverServeHTTP(p) ==
    IF p.kind = "*Error"
    THEN [status |-> p.code, body |-> JSONMsg(p.msg), escaped |-> NoPanic]
    ELSE IF IsError(p)
    THEN [status |-> StatusInternalServerError, body |-> JSONMsg(ErrorText(p)),
          escaped |-> NoPanic]
    ELSE [status |-> StatusInternalServerError,
          body |-> JSONMsg("Error: " \o p.msg), escaped |-> NoPanic]

(* the deferred recover of RESTHandler.ServeHTTP (calm.go:805):            *)
(* sendInternalError(err), whose message is fmt.Sprint(err)                *)
recoverServeHTTP2(p) ==
    [status |-> StatusInternalServerError, body |-> JSONMsg(ErrorText(p)),
     escaped |-> NoPanic]

InitMock ==
    /\ variant = "router"
    /\ mock \in [MockIds -> {Absent, "a"}]
    /\ hpc = "idle"
    /\ hreq = NoMockRequest
    /\ hres = NoMockResponse
    /\ HandlerIdle
    /\ KeysIdle
    /\ StreamIdle
    /\ RouterIdle
    /\ OtherIdle

\* mutant: the Content-Type is added when the handler has returned
ResContentTypeAfter(wrapped, ho) ==
    IF wrapped /\ ho.panic = NoPanic THEN <<JSON_TYPE>> ELSE <<>>

(* ResContentTypeHandler(h, JSON_TYPE) (helpers.go:101): header.Add before *)
(* h.ServeHTTP, so the value is there whether h returns or panics; without *)
(* the wrapper nothing sets a Content-Type                                 *)
ResContentType(wrapped, ho) == IF wrapped THEN <<JSON_TYPE>> ELSE <<>>

(* what the transport sees of the chain: an escaped panic leaves no response *)
Seen(res, ctype) ==
    [status |-> res.status, body |-> res.body, escaped |-> res.escaped,
     ctype |-> IF res.escaped = NoPanic THEN ctype ELSE <<>>]

(* ErrorHandler(h).ServeHTTP(w, req), h routing to MockModel or causeError, *)
(* with ResContentTypeHandler in the chain (example_test.go) or without    *)
(* (TestError, unit_test.go:121)                                           *)
ErrorHandlerServe ==
    /\ hpc = "idle"
    /\ \E r \in MockRequests :
          /\ ValidMockRequest(r)
          /\ LET ho == MockHandle(r, mock)
             IN /\ hreq' = r
                /\ hres' = Seen(ErrorHandler(ho), ResContentType(r.wrapped, ho))
                /\ mock' = ho.store
    /\ hpc' = "done"
    /\ UNCHANGED <<variant, routerVars, otherVars, handlerVars, keyVars, streamVars>>

(* RESTHandler.ServeHTTP with a Model method that panics with p, in the    *)
(* handler of calm.go:328 and in the handler of calm.go:803                *)
RecoverServe ==
    /\ hpc = "idle"
    /\ \E p \in PanicValues, h \in {"RESTHandler", "RESTHandler/getCacheKey"} :
          /\ hreq' = [handler |-> h, id |-> "", body |-> BodyNone,
                      panic |-> p, wrapped |-> FALSE]
          /\ hres' = Seen(IF h = "RESTHandler" THEN recoverServeHTTP(p)
                          ELSE recoverServeHTTP2(p), <<JSON_UTF8>>)
    /\ hpc' = "done"
    /\ UNCHANGED <<variant, routerVars, otherVars, handlerVars, keyVars, streamVars, mock>>

MockComplete ==
    /\ hpc = "done"
    /\ hpc' = "idle"
    /\ hreq' = NoMockRequest
    /\ hres' = NoMockResponse
    /\ UNCHANGED <<variant, routerVars, otherVars, handlerVars, keyVars, streamVars, mock>>

NextMock == ErrorHandlerServe \/ RecoverServe \/ MockComplete

SpecMock == InitMock /\ [][NextMock]_vars

----------------------------------------------------------------------------
(* Content negotiation: ServeHTTP on requests that differ in their Accept  *)
(* header values (calm.go:349-365, 813-830; acceptJSON, json.go:181)       *)

Elements == {Json, Star, Html, Malformed}

(* strings.Split(accept, ","): a header value has at least one element *)
AcceptValues ==
    UNION {[1..n -> Elements] : n \in 1..MaxElements}

(* r.Header["Accept"] *)
AcceptLists ==
    UNION {[1..n -> AcceptValues] : n \in 0..MaxAccepts}

AcceptRequests ==
    {[method |-> "GET", path |-> p, keyGroup |-> TRUE, query |-> <<>>,
      accept |-> a, body |-> BodyNone] : p \in {"/", "/0"}, a \in AcceptLists}

(* every memcache call goes through, the producer sends in key order *)
PlainOutcome ==
    [getUp |-> TRUE, setUp |-> TRUE, delUp |-> TRUE, del2Up |-> TRUE,
     order |-> <<"0", "1">>, none |-> FALSE]

InitAccept ==
    /\ variant \in {"makeKey", "getCacheKey"}
    /\ Expiration = 0
    /\ dataStore = [k \in Keys |-> IF k = "0" THEN "x" ELSE Absent]
    /\ cache = EmptyMap
    /\ pc = "idle"
    /\ req = NoRequest
    /\ resp = NoResponse
    /\ calls = <<>>
    /\ scen = NoScen
    /\ follows = NoFollow
    /\ served = 0
    /\ lastPut = NoPut
    /\ header = <<>>
    /\ KeysIdle
    /\ StreamIdle
    /\ MockIdle
    /\ RouterIdle
    /\ OtherIdle

(* RESTHandler.ServeHTTP(w, r, kvpairs) of a GET with the Accept values a *)
ServeAccept ==
    /\ pc = "idle"
    /\ \E r \in AcceptRequests :
          LET res == Handle(r, dataStore, cache, PlainOutcome)
          IN /\ req' = r
             /\ resp' = [status |-> res.status, body |-> res.body]
             /\ calls' = res.calls
             /\ dataStore' = res.store
             /\ cache' = res.cache
             /\ scen' = ScenNext(r, res, PlainOutcome)
             /\ follows' = FollowNext(r)
             /\ lastPut' = PutNext(r, res)
                   /\ header' = ContentType(r, res)
    /\ pc' = "done"
    /\ UNCHANGED <<variant, routerVars, otherVars, Expiration, served, keyVars, streamVars, mockVars>>

NextAccept == ServeAccept \/ Complete

SpecAccept == InitAccept /\ [][NextAccept]_vars

----------------------------------------------------------------------------
(* The Content-Type of the responses: RESTHandler.ServeHTTP in its two     *)
(* generations, and the chain ErrorHandler(ResContentTypeHandler(h))       *)

InitHeader ==
    /\ variant \in {"makeKey", "getCacheKey", "router"}
    /\ Expiration = 0
    /\ dataStore = [k \in Keys |-> IF k = "0" THEN "x" ELSE Absent]
    /\ cache = EmptyMap
    /\ pc = "idle"
    /\ req = NoRequest
    /\ resp = NoResponse
    /\ calls = <<>>
    /\ scen = NoScen
    /\ follows = NoFollow
    /\ served = 0
    /\ lastPut = NoPut
    /\ header = <<>>
    /\ KeysIdle
    /\ StreamIdle
    /\ MockIdle
    /\ RouterIdle
    /\ OtherIdle

ServeTyped == variant # "router" /\ ServeHTTP

ServeWrapped == variant = "router" /\ ErrorHandlerServe

NextHeader == ServeTyped \/ Complete \/ ServeWrapped \/ MockComplete

SpecHeader == InitHeader /\ [][NextHeader]_vars

----------------------------------------------------------------------------
(* router.go: Handler, Router, OPTIONS and SelfIntro.                      *)
(* A path template is written as the sequence of its segments:             *)
(* "/books/{id}" is <<"books", "{id}">>, and t.path + tpl is \o.            *)

MaxRouters == 4   \* Routers created on one Handler
MaxMethods == 1   \* Get/Post/Put/Patch/Delete entries over all Routers

GET == "GET"
POST == "POST"
PUT == "PUT"
PATCH == "PATCH"
DELETE == "DELETE"
OPTIONS == "OPTIONS"
OPTIONS_DESC == "Get available methods"

Var == "{id}"
PathTpls == {<<"books">>}
SubTpls == {<<"_doc">>, <<Var>>}
Descs == {"x", "y"}
RequestPaths == {<<"books">>, <<"books", "_doc">>, <<"books", "7">>,
                 <<"shelves">>}

RouterIds == 1..Len(routers)

Registered == LET RECURSIVE Sum(_)
                  Sum(n) == IF n = 0 THEN 0
                            ELSE Sum(n - 1)
                                 + Cardinality(DOMAIN routers[n].methods) - 1
              IN Sum(Len(routers))

(* t.methods[method] = desc; t.router.Methods(method).HandlerFunc(f);     *)
(* registered is history: the methods in the order of their registration   *)
addMethod(t, method, desc) ==
    [t EXCEPT !.methods =
                  [m \in DOMAIN t.methods \cup {method} |->
                      IF m = method THEN desc ELSE t.methods[m]],
              !.registered =
                  IF method \in DOMAIN t.methods THEN @ ELSE Append(@, method)]

(* &Router{...} followed by router.addMethod(OPTIONS, OPTIONS_DESC, ...);  *)
(* tpl is history: the template the Router was created with                *)
NewRouter(path, tpl) ==
    addMethod([path |-> path, tpl |-> tpl, methods |-> <<>>,
               registered |-> <<>>, children |-> <<>>],
              OPTIONS, OPTIONS_DESC)

(* path := t.path + tpl *)
SubPathOf(path, tpl) == path \o tpl

(* mux: a template segment {name} matches any one segment, the others      *)
(* match themselves, and Path() matches the whole path                     *)
Matches(tpl, path) ==
    /\ Len(tpl) = Len(path)
    /\ \A k \in 1..Len(tpl) : tpl[k] = Var \/ tpl[k] = path[k]

(* mux.Router.ServeHTTP: the first route, in the order the routes were     *)
(* added, whose matchers all match; every Router has an OPTIONS route      *)
Dispatch(path) ==
    LET ms == {i \in RouterIds : Matches(routers[i].path, path)}
    IN IF ms = {} THEN 0 ELSE CHOOSE i \in ms : \A j \in ms : i <= j

(* Router.options: the keys of t.methods in the map's iteration order *)
options(t) ==
    {[status |-> StatusOK, allow |-> ord, intros |-> <<>>] :
        ord \in MapOrders(t.methods)}

(* the closure `recursive` of SelfIntro: every value intros can gain by    *)
(* the call recursive(router), one per iteration order of the maps         *)
RECURSIVE recursive(_)
RECURSIVE eachChild(_)

recursive(i) ==
    LET router == routers[i]
        own == {<<[path |-> router.path,
                   methods |-> [k \in DOMAIN ord |->
                                   [method |-> ord[k],
                                    description |-> router.methods[ord[k]]]]]>> :
                    ord \in MapOrders(router.methods)}
    IN {a \o b : a \in own, b \in eachChild(router.children)}

(* for _, child := range router.children { recursive(child) } *)
eachChild(children) ==
    IF children = <<>>
    THEN {<<>>}
    ELSE {a \o b : a \in recursive(Head(children)),
                   b \in eachChild(Tail(children))}

\* mutant: the children are listed, their own children are not
SelfIntroOneLevel(i) ==
    LET flat == [r \in RouterIds |-> [routers[r] EXCEPT !.children = <<>>]]
        entry(r) == {<<[path |-> flat[r].path,
                        methods |-> [k \in DOMAIN ord |->
                            [method |-> ord[k],
                             description |-> flat[r].methods[ord[k]]]]]>> :
                        ord \in MapOrders(flat[r].methods)}
        RECURSIVE each(_)
        each(cs) == IF cs = <<>> THEN {<<>>}
                    ELSE {a \o b : a \in entry(Head(cs)), b \in each(Tail(cs))}
    IN {a \o b : a \in entry(i), b \in each(routers[i].children)}

(* Router.SelfIntro *)
SelfIntro(i) == recursive(i)

InitRouter ==
    /\ variant = "router"
    /\ RouterIdle
    /\ OtherIdle
    /\ HandlerIdle
    /\ KeysIdle
    /\ StreamIdle
    /\ MockIdle

RouterStep(rs) ==
    /\ rpc = "idle"
    /\ routers' = rs
    /\ UNCHANGED <<variant, otherVars, handlerVars, keyVars, streamVars, mockVars,
                   rpc, rreq, rres>>

(* Handler.Path *)
Path ==
    \E tpl \in PathTpls :
        /\ Len(routers) < MaxRouters
        /\ RouterStep(Append(routers, NewRouter(tpl, tpl)))

(* Router.SubPath *)
SubPath ==
    \E t \in RouterIds, tpl \in SubTpls :
        /\ Len(routers) < MaxRouters
        /\ RouterStep(Append(
               [routers EXCEPT ![t].children = Append(@, Len(routers) + 1)],
               NewRouter(SubPathOf(routers[t].path, tpl), tpl)))

Bind(method) ==
    \E t \in RouterIds, desc \in Descs :
        /\ method \in DOMAIN routers[t].methods \/ Registered < MaxMethods
        /\ RouterStep([routers EXCEPT ![t] = addMethod(@, method, desc)])

(* Router.Get, Post, Put, Patch, Delete *)
Get == Bind(GET)
Post == Bind(POST)
Put == Bind(PUT)
Patch == Bind(PATCH)
Delete == Bind(DELETE)

(* Handler.ServeHTTP for an OPTIONS request: mux answers 404 when no       *)
(* route matches                                                           *)
ServeOptions ==
    \E path \in RequestPaths :
        LET t == Dispatch(path)
        IN /\ rpc = "idle"
           /\ rpc' = "done"
           /\ rreq' = [kind |-> OPTIONS, path |-> path, router |-> t]
           /\ IF t = 0
              THEN rres' = [status |-> StatusNotFound, allow |-> <<>>,
                            intros |-> <<>>]
              ELSE rres' \in options(routers[t])
           /\ UNCHANGED <<variant, otherVars, handlerVars, keyVars, streamVars,
                          mockVars, routers>>

(* a call of Router.SelfIntro on one of the Routers *)
CallSelfIntro ==
    \E t \in RouterIds :
        /\ rpc = "idle"
        /\ rpc' = "done"
        /\ rreq' = [kind |-> "SelfIntro", path |-> routers[t].path,
                    router |-> t]
        /\ \E intros \in SelfIntro(t) :
               rres' = [status |-> 0, allow |-> <<>>, intros |-> intros]
        /\ UNCHANGED <<variant, otherVars, handlerVars, keyVars, streamVars,
                       mockVars, routers>>

RouterComplete ==
    /\ rpc = "done"
    /\ rpc' = "idle"
    /\ rreq' = NoRouterRequest
    /\ rres' = NoRouterResponse
    /\ UNCHANGED <<variant, otherVars, handlerVars, keyVars, streamVars, mockVars,
                   routers>>

NextRouter ==
    \/ Path
    \/ SubPath
    \/ Get
    \/ Post
    \/ Put
    \/ Patch
    \/ Delete
    \/ ServeOptions
    \/ CallSelfIntro
    \/ RouterComplete

SpecRouter == InitRouter /\ [][NextRouter]_vars

----------------------------------------------------------------------------
(* A read that misses the cache, the payload being known by its length     *)
(* only: cached / getAllJSON of calm.go:225-326 and getJSON / getAllJSON   *)
(* of calm.go:631-768, followed by w.Write(b) in ServeHTTP.                *)

MaxOver == 3      \* how far the lengths range around 0 and MEMCACHE_VALUE_MAX

PayloadSizes ==
    (0..MaxOver)
        \cup {MEMCACHE_VALUE_MAX + d - MaxOver : d \in 0..(2 * MaxOver)}

ReadRequests ==
    {r \in Requests : ValidRequest(r) /\ r.method = "GET" /\ AcceptOK(r.accept)}

InitSize ==
    /\ variant \in {"makeKey", "getCacheKey"}
    /\ Expiration \in {0, 1}
    /\ req \in ReadRequests
    /\ size \in PayloadSizes
    /\ wrote = NoWrite
    /\ MergeIdle
    /\ RaceIdle
    /\ WriteIdle
    /\ dataStore = [k \in Keys |-> Absent]
    /\ cache = EmptyMap
    /\ pc = "idle"
    /\ resp = NoResponse
    /\ calls = <<>>
    /\ scen = NoScen
    /\ follows = NoFollow
    /\ served = 0
    /\ lastPut = NoPut
    /\ header = <<>>
    /\ KeysIdle
    /\ StreamIdle
    /\ MockIdle
    /\ RouterIdle

(* the calls of a read of `size` bytes that misses: Cache.Get when the     *)
(* handler caches, the Model call, and the Set: cacheSet (calm.go:205) in  *)
(* the makeKey handler, Cache.Set (calm.go:656, 755) in the other          *)
MissCalls(r, n, up) ==
    LET key == KVGet(Merged(r), Key)
        log1 == IF Expiration # 0
                THEN <<Call("Cache.Get", ReadKey(r), FALSE)>> ELSE <<>>
        log2 == Append(log1, IF key # "" THEN Call("Model.Get", key, TRUE)
                             ELSE Call("Model.GetAll", "", TRUE))
    IN IF Expiration = 0 THEN log2
       ELSE IF variant = "makeKey" /\ TooBig(n) THEN log2
       ELSE Append(log2, Call("Cache.Set", ReadKey(r), up))

ReadMiss ==
    /\ pc = "idle" /\ req \in ReadRequests
    /\ pc' = "done"
    /\ \E up \in BOOLEAN : calls' = MissCalls(req, size, up)
    /\ wrote' = [status |-> StatusOK, len |-> size]
    /\ header' = <<JSON_UTF8>>
    /\ UNCHANGED <<variant, routerVars, keyVars, streamVars, mockVars,
                   Expiration, dataStore, cache, req, resp, scen, follows,
                   served, lastPut, size, mergeVars, raceVars, writes>>

NextSize == ReadMiss

SpecSize == InitSize /\ [][NextSize]_vars

----------------------------------------------------------------------------
(* ServeHTTP: put the query values in URL into kvpairs (calm.go:366-371    *)
(* and 831-836), kvpairs being the mapping the route made of the path      *)

MergeQueries ==
    KeyQueries \cup
        { <<<<"a", "0">>, <<"a", "1">>>>, <<<<"key", "1">>, <<"key", "0">>>>,
          <<<<"key", "">>, <<"key", "1">>>> }

MergeRequests ==
    {[method |-> "GET", path |-> p, keyGroup |-> g, query |-> q,
      accept |-> <<>>, body |-> BodyNone] :
        p \in Paths, g \in BOOLEAN, q \in MergeQueries}

InitMerge ==
    /\ variant \in {"makeKey", "getCacheKey"}
    /\ r1 \in {r \in MergeRequests : ValidRequest(r)}
    /\ kv1 = RouteKV(r1.path, r1.keyGroup)
    /\ mpc = "idle"
    /\ r2 = NoRequest /\ k1 = Nil /\ k2 = Nil
    /\ SizeIdle
    /\ RaceIdle
    /\ WriteIdle
    /\ HandlerIdle
    /\ StreamIdle
    /\ MockIdle
    /\ RouterIdle

Merge ==
    /\ mpc = "idle" /\ r1 # NoRequest
    /\ mpc' = "done"
    /\ kv1' = MergeQuery(kv1, r1.query)
    /\ UNCHANGED <<variant, routerVars, handlerVars, keyVars, streamVars,
                   mockVars, sizeVars, raceVars, writes>>

NextMerge == Merge

SpecMerge == InitMerge /\ [][NextMerge]_vars

----------------------------------------------------------------------------
(* Two requests served concurrently by one RESTHandler: a GET and a PUT,   *)
(* each a goroutine of net/http, stepping through the Model and Cache      *)
(* calls of getJSON (calm.go:631, 225; part_001:346) and of the PUT case   *)
(* with deleteCache (calm.go:875, 770; part_001:532, 470).  memcache is up *)
(* and has room.                                                           *)

PutValue == "z"      \* the value the PUT carries

(* the cache key of the item k, and of the collection *)
RaceKey(k) ==
    IF variant = "makeKey" THEN MD5Hex("/" \o k)
    ELSE getCacheKey(<<Key>>, KVSet(EmptyMap, Key, k))

RaceAllKey ==
    IF variant = "mckey" THEN Name \o "__all"
    ELSE getCacheKey(<<Key>>, KVSet(EmptyMap, Key, ""))

(* part_001 uses memcache whatever Expiration is *)
RaceCaches == variant = "mckey" \/ Expiration # 0

InitRace ==
    /\ variant \in {"makeKey", "getCacheKey", "mckey"}
    /\ Expiration \in {0, 1}
    /\ dataStore \in InitStores
    /\ pathParameters = ""
    /\ proc \in [Procs -> {[NoProc EXCEPT !.sup = k] : k \in Keys}]
    /\ cache = EmptyMap
    /\ pc = "idle"
    /\ req = NoRequest
    /\ resp = NoResponse
    /\ calls = <<>>
    /\ scen = NoScen
    /\ follows = NoFollow
    /\ served = 0
    /\ lastPut = NoPut
    /\ header = <<>>
    /\ SizeIdle
    /\ MergeIdle
    /\ WriteIdle
    /\ KeysIdle
    /\ StreamIdle
    /\ MockIdle
    /\ RouterIdle

RaceStep(p, pc2, key2, b2) ==
    /\ proc' = [proc EXCEPT ![p] = [@ EXCEPT !.pc = pc2, !.key = key2, !.b = b2]]
    /\ UNCHANGED <<variant, routerVars, keyVars, streamVars, mockVars,
                   sizeVars, mergeVars, writes, Expiration, pc, req, resp,
                   calls, scen, follows, served, lastPut, header>>

(* part_001: goroute calls h.SetPathParameters(nvpairs) before ServeHTTP *)
SetPathParameters(p) ==
    /\ variant = "mckey" /\ proc[p].pc = "new"
    /\ pathParameters' = proc[p].sup
    /\ RaceStep(p, "set", "", Nil)
    /\ UNCHANGED <<dataStore, cache>>

(* key := kvpairs[h.Key] (calm.go:372, 846), kvpairs being an argument of  *)
(* the call; key := h.pathParameters["key"] (part_001:507)                 *)
ReadParameters(p) ==
    /\ proc[p].pc = (IF variant = "mckey" THEN "set" ELSE "new")
    /\ RaceStep(p, "serve",
                IF variant = "mckey" THEN pathParameters ELSE proc[p].sup, Nil)
    /\ UNCHANGED <<dataStore, cache, pathParameters>>

(* getJSON / cached: Cache.Get when the handler caches *)
GetCacheGet ==
    LET g == proc["get"]
    IN /\ g.pc = "serve"
       /\ IF RaceCaches /\ CacheHas(cache, RaceKey(g.key))
          THEN RaceStep("get", "done", g.key, cache[RaceKey(g.key)])
          ELSE RaceStep("get", "miss", g.key, Nil)
       /\ UNCHANGED <<dataStore, cache, pathParameters>>

(* v, err := h.Model.Get(kvpairs); b, err := json.Marshal(v) *)
GetModelGet ==
    LET g == proc["get"]
    IN /\ g.pc = "miss"
       /\ IF dataStore[g.key] = Absent
          THEN RaceStep("get", "done", g.key, Nil)
          ELSE RaceStep("get", IF RaceCaches THEN "read" ELSE "done", g.key,
                        Marshal(g.key, dataStore[g.key]))
       /\ UNCHANGED <<dataStore, cache, pathParameters>>

(* Cache.Set of the bytes read, and return b *)
GetCacheSet ==
    LET g == proc["get"]
    IN /\ g.pc = "read"
       /\ cache' = KVSet(cache, RaceKey(g.key), g.b)
       /\ RaceStep("get", "done", g.key, g.b)
       /\ UNCHANGED <<dataStore, pathParameters>>

(* err = h.Model.Put(kvpairs, v) *)
PutModelPut ==
    LET w == proc["put"]
    IN /\ w.pc = "serve"
       /\ IF dataStore[w.key] = Absent
          THEN /\ RaceStep("put", "done", w.key, Nil)
               /\ UNCHANGED dataStore
          ELSE /\ dataStore' = [dataStore EXCEPT ![w.key] = PutValue]
               /\ RaceStep("put",
                           IF RaceCaches /\ variant # "makeKey" THEN "put"
                           ELSE "done",
                           w.key, SUCCESS)
       /\ UNCHANGED <<cache, pathParameters>>

(* deleteCache / deleteMCKey: Cache.Delete of the item's key *)
PutDelete ==
    LET w == proc["put"]
    IN /\ w.pc = "put"
       /\ cache' = CacheDelete(cache, RaceKey(w.key), TRUE)
       /\ RaceStep("put", "del", w.key, w.b)
       /\ UNCHANGED <<dataStore, pathParameters>>

(* deleteCache / deleteMCAll: Cache.Delete of the collection's key *)
PutDeleteAll ==
    LET w == proc["put"]
    IN /\ w.pc = "del"
       /\ cache' = CacheDelete(cache, RaceAllKey, TRUE)
       /\ RaceStep("put", "done", w.key, w.b)
       /\ UNCHANGED <<dataStore, pathParameters>>

NextRace ==
    \/ \E p \in Procs : SetPathParameters(p)
    \/ \E p \in Procs : ReadParameters(p)
    \/ GetCacheGet
    \/ GetModelGet
    \/ GetCacheSet
    \/ PutModelPut
    \/ PutDelete
    \/ PutDeleteAll

SpecRace == InitRace /\ [][NextRace]_vars

----------------------------------------------------------------------------
(* What one request puts on its ResponseWriter: every call that writes,    *)
(* in order, as [status, body].  status is the status line the call sends  *)
(* (0 when the header has gone out before), body the bytes it adds.        *)

WriteOf(status, body) == [status |-> status, body |-> body]

(* part_001 getJSON(key): [b, err, cache] *)
getJSON0(key, st, c, o) ==
    LET mckey == Name \o "_" \o key
        item == cacheGet(c, mckey, o.getUp)
        g == GetOutcome(st, KVSet(EmptyMap, Key, key), o)
    IN IF item # Nil THEN [b |-> item, err |-> Nil, cache |-> c]
       ELSE IF g.err # Nil THEN [b |-> Nil, err |-> g.err, cache |-> c]
       ELSE IF g.v = Nil THEN [b |-> Nil, err |-> Nil, cache |-> c]
       ELSE [b |-> g.v, err |-> Nil, cache |-> CachePut(c, mckey, g.v, o.setUp)]

(* part_001 getAllJSON(): [b, err, cache] *)
getAllJSON0(st, c, o) ==
    LET mckey == Name \o "__all"
        item == cacheGet(c, mckey, o.getUp)
        b == ArrayJSON(st, o.order)
    IN IF item # Nil THEN [b |-> item, err |-> Nil, cache |-> c]
       ELSE IF o.none THEN [b |-> Nil, err |-> Nil, cache |-> c]
       ELSE [b |-> b, err |-> Nil, cache |-> CachePut(c, mckey, b, o.setUp)]

(* part_001 ServeHTTP, the deferred function: log.Panicln(err) prints and  *)
(* panics again, so the http.Error after it is never reached               *)
Recovered0(err) == <<>>

(* part_001 ServeHTTP for a GET: [writes, cache] *)
ServeHTTP0(r, st, c, o) ==
    LET key == KVGet(RouteKV(r.path, r.keyGroup), Key)
        j == IF key # "" THEN getJSON0(key, st, c, o) ELSE getAllJSON0(st, c, o)
    IN IF ~AcceptOK(r.accept)
       THEN [writes |-> <<WriteOf(StatusNotAcceptable,
                                  "Supported Content-Type: application/json")>>,
             cache |-> c]
       ELSE IF j.err # Nil
       THEN [writes |-> Recovered0(j.err), cache |-> j.cache]
       ELSE IF j.b = Nil
       \* SendNotFound(w, r), and then w.Write(b) of the nil slice
       THEN [writes |-> <<WriteOf(StatusNotFound, "Not found"), WriteOf(0, "")>>,
             cache |-> j.cache]
       ELSE [writes |-> <<WriteOf(StatusOK, j.b)>>, cache |-> j.cache]

WriteRequests(v) ==
    {r \in Requests :
        /\ ValidRequest(r)
        /\ v = "mckey" => (r.method = "GET" /\ r.query = <<>>)}

InitWrites ==
    /\ variant \in {"makeKey", "getCacheKey", "mckey"}
    /\ Expiration \in {0, 1}
    /\ dataStore \in InitStores
    /\ cache = EmptyMap
    /\ pc = "idle"
    /\ req = NoRequest
    /\ resp = NoResponse
    /\ calls = <<>>
    /\ scen = NoScen
    /\ follows = NoFollow
    /\ served = 0
    /\ lastPut = NoPut
    /\ header = <<>>
    /\ writes = <<>>
    /\ SizeIdle
    /\ MergeIdle
    /\ RaceIdle
    /\ KeysIdle
    /\ StreamIdle
    /\ MockIdle
    /\ RouterIdle

(* ServeHTTP from its entry to its return, or to the panic leaving it *)
ServeWrites ==
    /\ pc = "idle"
    /\ \E r \in WriteRequests(variant) : \E o \in OutcomesFor(r) :
           /\ req' = r
           /\ IF variant = "mckey"
              THEN LET s0 == ServeHTTP0(r, dataStore, cache, o)
                   IN /\ writes' = s0.writes
                      /\ cache' = s0.cache
                      /\ UNCHANGED <<dataStore, calls>>
              ELSE LET res == Handle(r, dataStore, cache, o)
                   IN /\ writes' = <<WriteOf(res.status, res.body)>>
                      /\ cache' = res.cache
                      /\ dataStore' = res.store
                      /\ calls' = res.calls
    /\ pc' = "done"
    /\ UNCHANGED <<variant, routerVars, sizeVars, mergeVars, raceVars,
                   keyVars, streamVars, mockVars, Expiration, resp, scen,
                   follows, served, lastPut, header>>

NextWrites == ServeWrites

SpecWrites == InitWrites /\ [][NextWrites]_vars

----------------------------------------------------------------------------
(* Vocabulary of the properties *)

Served == pc = "done"
CachingOn == Expiration # 0
Mutations == {"PUT", "PATCH", "POST", "DELETE"}
ModelOps == {"Model.Get", "Model.GetAll", "Model.Put", "Model.Patch",
             "Model.Post", "Model.Delete"}
MutationOps == {"Model.Put", "Model.Patch", "Model.Post", "Model.Delete"}

Ops(log) == {log[i].op : i \in 1..Len(log)}
NothingFound(log) == \E i \in 1..Len(log) : log[i].none
DeletedKeys(log) == {log[i].arg : i \in {j \in 1..Len(log) : log[j].op = "Cache.Delete"}}

ItemKey(r) == KVGet(Merged(r), Key)

(* the bytes a read of r's target yields from the backend as it is now *)
FreshBodies(r, st) ==
    IF ItemKey(r) # ""
    THEN IF ItemKey(r) \in Keys /\ st[ItemKey(r)] # Absent
         THEN {Marshal(ItemKey(r), st[ItemKey(r)])} ELSE {}
    ELSE {ArrayJSON(st, ord) : ord \in Orders}

(* no element of any Accept value names a JSON media range *)
NoJSONElement(accepts) ==
    \A i \in 1..Len(accepts) : \A j \in 1..Len(accepts[i]) :
        ~(/\ Len(accepts[i][j]) = 2
          /\ accepts[i][j][1] \in {"*", "application"}
          /\ accepts[i][j][2] \in {"*", "json"})

----------------------------------------------------------------------------
(* C1 as stated: when getAllJSON has returned, every item the producer had *)
(* to send has been received, the items after an error item or after an    *)
(* item that fails to marshal included; the producer is not left blocked   *)
(* on a send.                                                              *)
C1_ProducerNeverLeftBlocked ==
    cpc = "returned" => sent = Len(items)

C3_HitServesCachedBytes ==
    [][ (pc = "idle" /\ pc' = "done" /\ CachingOn /\ req'.method = "GET"
           /\ AcceptOK(req'.accept))
        => LET ck == ReadKey(req')
           IN IF CacheHas(cache, ck)
              THEN \/ /\ resp' = [status |-> StatusOK, body |-> cache[ck]]
                      /\ calls' = <<Call("Cache.Get", ck, TRUE)>>
                      /\ cache' = cache
                   \/ calls'[1] = Call("Cache.Get", ck, FALSE)
              ELSE /\ calls'[1] = Call("Cache.Get", ck, FALSE)
                   /\ resp'.status = StatusOK =>
                          resp'.body \in FreshBodies(req', dataStore)
                   /\ resp'.status # StatusOK =>
                          \/ FreshBodies(req', dataStore) = {}
                          \/ NothingFound(calls')
      ]_vars

C3_Witness ==
    /\ Served /\ CachingOn /\ req.method = "GET"
    /\ follows.mut = "PUT"
    /\ calls = <<Call("Cache.Get", follows.ck, TRUE)>>
    /\ resp.body = follows.old
    /\ resp.body \notin FreshBodies(req, dataStore)

(* C4: a request with an Accept header none of whose values accepts JSON   *)
(* is answered 406 and makes no Model call and no Cache call, whatever its *)
(* method and key.                                                         *)
C4_NotAcceptableBeforeAnyWork ==
    (Served /\ Len(req.accept) > 0 /\ NoJSONElement(req.accept)) =>
        /\ resp.status = StatusNotAcceptable
        /\ calls = <<>>

C4_Witness ==
    /\ Served /\ req.accept = <<<<Html>>>> /\ req.method = "DELETE"
    /\ ItemKey(req) = "0" /\ dataStore["0"] # Absent
    /\ resp.status = StatusNotAcceptable

KeysComputed == k1 # Nil /\ k2 # Nil

(* the two mappings hold the same (name, value) pairs *)
SamePairs(m1, m2) ==
    DOMAIN m1 = DOMAIN m2 /\ \A n \in DOMAIN m1 : m1[n] = m2[n]

C6_SingleKeyDiffersFromCollectionKey ==
    (/\ KeysComputed
     /\ DOMAIN Merged(r1) = {Key} /\ Merged(r1)[Key] # ""
     /\ DOMAIN Merged(r2) = {}) => k1 # k2

C6_Witness ==
    /\ KeysComputed /\ variant = "getCacheKey"
    /\ r1.path = "/0" /\ r1.query = <<>>
    /\ r2.path = "/" /\ r2.query = <<>> /\ ~r2.keyGroup
    /\ k1 = "test_0" /\ k2 = "test"

(* C7 as stated: a request whose mapping has no entry for the primary key  *)
(* gets the same cache key as the request whose mapping differs only in    *)
(* having the primary key present with the empty string as its value.      *)
C7_AbsentKeySameAsEmptyKey ==
    (/\ KeysComputed
     /\ Key \notin DOMAIN Merged(r1)
     /\ SamePairs(Merged(r2), KVSet(Merged(r1), Key, ""))) => k1 = k2

(* C8 as stated: a successful PUT, PATCH or DELETE of item k issues a      *)
(* Cache.Delete for the key the read-single path uses for k and for the    *)
(* key the read-all path uses for the collection with the same remaining   *)
(* parameters (primary key empty, or absent).                              *)
CollectionRequests(r) ==
    {q \in Requests :
        /\ ValidRequest(q) /\ q.method = "GET" /\ q.accept = <<>>
        /\ ItemKey(q) = ""
        /\ \A n \in ParamNames \ {Key} :
               /\ (n \in DOMAIN Merged(q)) = (n \in DOMAIN Merged(r))
               /\ KVGet(Merged(q), n) = KVGet(Merged(r), n)}

C8_InvalidatesReadKeys ==
    (Served /\ CachingOn /\ req.method \in {"PUT", "PATCH", "DELETE"}
        /\ ItemKey(req) # "" /\ resp.status = StatusOK) =>
        /\ ReadKey(req) \in DeletedKeys(calls)
        /\ \A q \in CollectionRequests(req) : ReadKey(q) \in DeletedKeys(calls)

(* C9: in a PUT, PATCH, POST or DELETE request every Cache.Delete comes    *)
(* after a backend mutation that returned success; a request that fails    *)
(* issues no Cache.Delete and leaves the cache as it was.                  *)
C9_InvalidateOnlyAfterSuccess ==
    [][ (pc = "idle" /\ pc' = "done" /\ CachingOn /\ req'.method \in Mutations)
        => /\ \A i \in 1..Len(calls') :
                 calls'[i].op = "Cache.Delete" =>
                     \E j \in 1..(i - 1) :
                         calls'[j].op \in MutationOps /\ calls'[j].ok
           /\ resp'.status # StatusOK =>
                 /\ "Cache.Delete" \notin Ops(calls')
                 /\ cache' = cache
      ]_vars

C9_Witness ==
    /\ Served /\ CachingOn /\ variant = "getCacheKey"
    /\ req.method = "PUT" /\ AcceptOK(req.accept)
    /\ calls = <<Call("Model.Put", ItemKey(req), FALSE)>>
    /\ CacheHas(cache, ReadKey(req))

(* C10: a GET with caching on whose backend read succeeds (the backend     *)
(* returns a value and no error) is answered 200 with the freshly          *)
(* serialized bytes, whether Cache.Get and Cache.Set failed or not.        *)
C10_CacheFailureNeverFailsRead ==
    (Served /\ CachingOn /\ req.method = "GET" /\ AcceptOK(req.accept)
        /\ FreshBodies(req, dataStore) # {} /\ ~NothingFound(calls)
        /\ (Len(calls) = 0 \/ ~(calls[1].op = "Cache.Get" /\ calls[1].ok))) =>
        /\ resp.status = StatusOK
        /\ resp.body \in FreshBodies(req, dataStore)

C10_Witness ==
    /\ Served /\ CachingOn /\ req.method = "GET" /\ ItemKey(req) = "0"
    /\ Len(calls) = 3
    /\ calls[1] = Call("Cache.Get", ReadKey(req), FALSE)
    /\ calls[2] = Call("Model.Get", "0", TRUE)
    /\ calls[3] = Call("Cache.Set", ReadKey(req), FALSE)
    /\ resp.status = StatusOK

----------------------------------------------------------------------------
(* the GET being answered directly follows a successful PUT with the same  *)
(* parameter mapping                                                       *)
GetAfterPut ==
    /\ Served /\ lastPut.age = 1
    /\ IsSingleGet(req) /\ Merged(req) = lastPut.kv

(* the GET being answered was served from a cache entry *)
CacheHit == Len(calls) > 0 /\ calls[1].op = "Cache.Get" /\ calls[1].ok

Items(st) == {k \in Keys : st[k] # Absent}

(* C12: a PUT whose Model.Put reports that the target does not exist is    *)
(* answered 404 and leaves the store as it was; no PUT request, whatever   *)
(* its outcome, adds an item to the store.                                 *)
C12_PutNeverCreates ==
    [][ (pc = "idle" /\ pc' = "done" /\ req'.method = "PUT")
        => /\ Items(dataStore') = Items(dataStore)
           /\ (\E i \in 1..Len(calls') :
                  /\ calls'[i] = Call("Model.Put", ItemKey(req'), FALSE)
                  /\ dataStore[ItemKey(req')] = Absent)
                 => (resp'.status = StatusNotFound /\ dataStore' = dataStore)
      ]_vars

C12_Witness ==
    /\ Served /\ req.method = "PUT" /\ ItemKey(req) = "1"
    /\ dataStore["1"] = Absent /\ dataStore["0"] # Absent
    /\ calls = <<Call("Model.Put", "1", FALSE)>>
    /\ resp.status = StatusNotFound

(* a request that passed the Accept check has just been answered *)
Answered(methods) ==
    pc = "idle" /\ pc' = "done" /\ req'.method \in methods
        /\ AcceptOK(req'.accept)

Unmatched(r) ==
    ~ \/ r.method \in {"GET", "PUT", "DELETE"}
      \/ r.method = "PATCH" /\ ItemKey(r) # ""
      \/ r.method = "POST" /\ ItemKey(r) = ""

(* C14 as stated: a request outside the eight cases is answered 400 with   *)
(* a method-not-supported message and calls no Model method.               *)
C14_UnmatchedIsBadRequest ==
    (Served /\ AcceptOK(req.accept) /\ Unmatched(req)) =>
        /\ resp = [status |-> StatusBadRequest, body |-> JSONMsg(Unsupported)]
        /\ calls = <<>>

(* C14, amended: a request outside the eight cases, once past the Accept   *)
(* check, calls no Model method; the getCacheKey handler answers it 400    *)
(* with the message "Unsupported request method", the makeKey handler 405  *)
(* with the message "Method Not Allowed".                                  *)
C14_UnmatchedIsRefused ==
    (Served /\ AcceptOK(req.accept) /\ Unmatched(req)) =>
        /\ variant = "getCacheKey" =>
               resp = [status |-> StatusBadRequest, body |-> JSONMsg(Unsupported)]
        /\ variant = "makeKey" =>
               resp = [status |-> StatusMethodNotAllowed,
                       body |-> JSONMsg(NOT_ALLOWED)]
        /\ calls = <<>>

C14_Witness ==
    /\ Served /\ variant = "getCacheKey" /\ AcceptOK(req.accept)
    /\ req.method = "POST" /\ ItemKey(req) = "1" /\ Decodes(req.body)
    /\ dataStore["1"] = Absent
    /\ resp = [status |-> StatusBadRequest, body |-> JSONMsg(Unsupported)]

(* C15 as stated: whatever a handler panics with, a structured error, a    *)
(* plain error or a value that is no error, the recovery point turns it    *)
(* into a response; no panic gets past the handler to the transport.       *)
C15_NoPanicEscapes ==
    hpc = "done" => (hres.escaped = NoPanic /\ hres.status # 0)

(* the plain error (one with no status code) the request r runs into on    *)
(* the store st: the decoding of the body, or Model.Post on an existing id *)
PlainErrorOf(r, st) ==
    LET key == KVGet(Merged(r), Key)
    IN IF r.method \in {"PUT", "PATCH"} /\ key # "" /\ ~Decodes(r.body)
       THEN ErrDecode
       ELSE IF r.method = "POST" /\ key = "" /\ ~Decodes(r.body) THEN ErrDecode
       ELSE IF r.method = "POST" /\ key = "" /\ st[r.body.id] # Absent
       THEN ErrExists
       ELSE Nil

(* C16 as stated: an error with a status code is answered with that code   *)
(* (a missing item: 404), and a plain error, from the backend or from the  *)
(* decoding of the body, is answered with 500 and the error's text.        *)
C16_PlainErrorIsInternalError ==
    [][(pc = "idle" /\ pc' = "done" /\ AcceptOK(req'.accept)) =>
         /\ PlainErrorOf(req', dataStore) # Nil =>
               /\ resp'.status = StatusInternalServerError
               /\ resp'.body = JSONMsg(PlainErrorOf(req', dataStore))
         /\ (/\ req'.method = "DELETE" \/ (req'.method = "PUT" /\ Decodes(req'.body))
             /\ ItemKey(req') \in Keys
             /\ dataStore[ItemKey(req')] = Absent) =>
               resp'.status = StatusNotFound]_vars

(* C17 as stated: the body of every error response declares a status code, *)
(* and the declared code is the HTTP status of the response.               *)
C17_ErrorBodyDeclaresStatus ==
    (Served /\ resp.status >= StatusBadRequest) =>
        \E msg \in {NOT_FOUND, NOT_ALLOWED, TYPE_MISMATCH, NotFound,
                     NotImplemented, Unsupported, ErrParse, ErrDecode, ErrExists,
                     "Supported Content-Type: application/json"} :
            resp.body = HTTPErrorJSON(resp.status, msg)

(* C18 as stated: a PUT with a key whose body does not decode into the     *)
(* resource type is answered with 400, Model.Put is not called and the     *)
(* backend store is unchanged.                                             *)
C18_UndecodablePutIsBadRequest ==
    [][(/\ Answered({"PUT"})
        /\ ItemKey(req') # ""
        /\ ~Decodes(req'.body)) =>
         /\ resp'.status = StatusBadRequest
         /\ "Model.Put" \notin Ops(calls')
         /\ dataStore' = dataStore]_vars

(* C19 as stated: a PATCH with a key first calls Model.Get; an absent item *)
(* is answered with 404; Model.Patch is called only after the fetch, the   *)
(* application of the patch and the decode of the patched document have    *)
(* succeeded; a PATCH that fails leaves the store unchanged.               *)
C19_PatchFetchesFirst ==
    [][(Answered({"PATCH"}) /\ ItemKey(req') # "") =>
         /\ Len(calls') > 0 /\ calls'[1].op = "Model.Get"
         /\ (ItemKey(req') \in Keys /\ dataStore[ItemKey(req')] = Absent) =>
                resp'.status = StatusNotFound
         /\ "Model.Patch" \in Ops(calls') =>
                /\ calls'[1].ok
                /\ Applies(req'.body) /\ Unmarshals(req'.body)
         /\ resp'.status # StatusOK => dataStore' = dataStore]_vars

(* C19 as the code has it: the makeKey handler decodes the patch before    *)
(* anything else (a body that is no patch is answered with 500 and no      *)
(* Model call); then it fetches with Model.Get, answers 404 when the item  *)
(* is absent and calls Model.Patch only after fetch, application and       *)
(* decode have succeeded. The getCacheKey handler never calls Model.Get    *)
(* for a PATCH. In both, a PATCH that fails leaves the store unchanged.    *)
C19_PatchFetchesAfterDecode ==
    [][(Answered({"PATCH"}) /\ ItemKey(req') # "") =>
         /\ resp'.status # StatusOK => dataStore' = dataStore
         /\ variant = "getCacheKey" => "Model.Get" \notin Ops(calls')
         /\ (variant = "makeKey" /\ ~Decodes(req'.body)) =>
                calls' = <<>> /\ resp'.status = StatusInternalServerError
         /\ (variant = "makeKey" /\ Decodes(req'.body)) =>
                /\ Len(calls') > 0 /\ calls'[1].op = "Model.Get"
                /\ (ItemKey(req') \in Keys /\ dataStore[ItemKey(req')] = Absent) =>
                       resp'.status = StatusNotFound
                /\ "Model.Patch" \in Ops(calls') =>
                       /\ calls'[1].ok
                       /\ Applies(req'.body) /\ Unmarshals(req'.body)]_vars

(* a PATCH of an existing item whose patched document does not decode has  *)
(* been answered: the fetch was made, Model.Patch was not                  *)
C19_Witness ==
    /\ Served /\ variant = "makeKey"
    /\ req.method = "PATCH" /\ req.body = PatchNumber
    /\ calls = <<Call("Model.Get", ItemKey(req), TRUE)>>
    /\ resp.status = StatusInternalServerError

(* C20 as stated: with caching on, a successful POST issues a Cache.Delete *)
(* for the key of the collection (the key the read-all path uses) and for  *)
(* no other key, and every other cache entry is left as it was.            *)
C20_PostInvalidatesCollectionOnly ==
    [][(Answered({"POST"}) /\ CachingOn /\ resp'.status = StatusOK) =>
         LET collection == {ReadKey(q) : q \in CollectionRequests(req')}
         IN /\ collection \subseteq DeletedKeys(calls')
            /\ DeletedKeys(calls') \subseteq collection
            /\ \A k \in DOMAIN cache \ collection :
                   k \in DOMAIN cache' /\ cache'[k] = cache[k]]_vars

C22_NoCacheWhenDisabled ==
    [][(pc = "idle" /\ pc' = "done" /\ Expiration = 0) =>
         /\ Ops(calls') \cap {"Cache.Get", "Cache.Set", "Cache.Delete"} = {}
         /\ cache' = cache
         /\ (req'.method = "GET" /\ AcceptOK(req'.accept)) =>
                calls'[1].op =
                    (IF ItemKey(req') # "" THEN "Model.Get" ELSE "Model.GetAll")]_vars

(* with caching off, a PUT has replaced an item *)
C22_Witness ==
    /\ Served /\ Expiration = 0
    /\ req.method = "PUT" /\ resp.status = StatusOK
    /\ calls = <<Call("Model.Put", ItemKey(req), TRUE)>>
    /\ dataStore[ItemKey(req)] = req.body.value

(* C23 as stated: a request passes content negotiation exactly when it has *)
(* no Accept header or some element of some Accept value has type * or     *)
(* application and subtype * or json, wherever that element stands.        *)
C23_AcceptedIffSomeJSONElement ==
    Served =>
        ((resp.status # StatusNotAcceptable)
            <=> (Len(req.accept) = 0 \/ ~NoJSONElement(req.accept)))

(* C24 as stated: a malformed element is passed over; a header value with  *)
(* a malformed element followed by application/json is accepted.           *)
C24_MalformedElementIsSkipped ==
    (Served /\ \E i \in 1..Len(req.accept) :
                  \E j \in 1..(Len(req.accept[i]) - 1) :
                      /\ req.accept[i][j] = Malformed
                      /\ req.accept[i][j + 1] = Json) =>
        resp.status # StatusNotAcceptable

(* C25: every response RESTHandler writes, a success, a 406 or an error,   *)
(* has the Content-Type application/json; charset=utf-8, and every         *)
(* response written below ResContentTypeHandler(h, JSON_TYPE) has the      *)
(* Content-Type application/json.                                          *)
C25_ResponsesDeclareJSON ==
    /\ Served => header = <<JSON_UTF8>>
    /\ (hpc = "done" /\ hreq.wrapped /\ hres.escaped = NoPanic) =>
           hres.ctype = <<JSON_TYPE>>

(* a request that does not accept JSON has been refused with 406 *)
C25_Witness ==
    /\ Served /\ resp.status = StatusNotAcceptable
    /\ header = <<JSON_UTF8>>

----------------------------------------------------------------------------
(* Vocabulary of the Router properties *)

Range(seq) == {seq[k] : k \in 1..Len(seq)}

\* the Router whose SubPath created Router i, 0 for one made by Handler.Path
Parent(i) ==
    IF \E j \in RouterIds : i \in Range(routers[j].children)
    THEN CHOOSE j \in RouterIds : i \in Range(routers[j].children)
    ELSE 0

RECURSIVE Chain(_)
\* the Routers from the Handler down to Router i
Chain(i) == IF Parent(i) = 0 THEN <<i>> ELSE Append(Chain(Parent(i)), i)

\* Router r and the Routers created transitively by SubPath under it
Under(r) == {i \in RouterIds : r \in Range(Chain(i))}

\* i comes before j depth-first, siblings in creation order: the chain of
\* i is a proper prefix of the chain of j, or is smaller where they part
Before(i, j) ==
    LET a == Chain(i)
        b == Chain(j)
    IN \E k \in 1..Len(b) :
           /\ \A m \in 1..(k - 1) : m <= Len(a) /\ a[m] = b[m]
           /\ \/ k = Len(a) + 1
              \/ k <= Len(a) /\ a[k] < b[k]

PreOrder(r) ==
    [p \in 1..Cardinality(Under(r)) |->
        CHOOSE i \in Under(r) :
            Cardinality({j \in Under(r) : Before(j, i)}) = p - 1]

RECURSIVE Concat(_)
Concat(chain) ==
    IF chain = <<>> THEN <<>>
    ELSE Concat(SubSeq(chain, 1, Len(chain) - 1))
         \o routers[chain[Len(chain)]].tpl

\* the templates from the Handler down to Router i, concatenated
FullPath(i) == Concat(Chain(i))

MethodIntros(t) ==
    {[method |-> m, description |-> t.methods[m]] : m \in DOMAIN t.methods}

OptionsAnswered == rpc = "done" /\ rreq.kind = OPTIONS
SelfIntroReturned == rpc = "done" /\ rreq.kind = "SelfIntro"

----------------------------------------------------------------------------
(* C26: for every Router and any registrations on it, an OPTIONS request   *)
(* to its path is answered 200 with an Allow header whose set of methods   *)
(* is OPTIONS plus the methods registered on that Router.                  *)
C26_OptionsAllowsRegistered ==
    \A i \in RouterIds :
        (OptionsAnswered /\ Matches(routers[i].path, rreq.path)) =>
            /\ rres.status = StatusOK
            /\ Range(rres.allow) = DOMAIN routers[i].methods
            /\ OPTIONS \in Range(rres.allow)

(* C27: SelfIntro of a router r returns exactly one entry for r and for    *)
(* each router created transitively by SubPath under r, r first and the    *)
(* descendants depth-first in creation order, each entry giving the full   *)
(* concatenated path and the methods registered on that router, OPTIONS    *)
(* included, with their descriptions.                                      *)
C27_SelfIntroListsSubtree ==
    SelfIntroReturned =>
        LET order == PreOrder(rreq.router)
            intros == rres.intros
        IN /\ Len(intros) = Cardinality(Under(rreq.router))
           /\ order[1] = rreq.router
           /\ \A p \in 1..Len(intros) :
                  LET t == routers[order[p]]
                  IN /\ intros[p].path = FullPath(order[p])
                     /\ Range(intros[p].methods) = MethodIntros(t)
                     /\ Len(intros[p].methods) = Cardinality(DOMAIN t.methods)
                     /\ [method |-> OPTIONS, description |-> OPTIONS_DESC]
                            \in Range(intros[p].methods)

\* a grandchild created after a second child is listed before it, and a
\* registered method is listed with the description given last
C27_Witness ==
    /\ SelfIntroReturned
    /\ rreq.router = 1
    /\ Len(routers) = 4
    /\ PreOrder(1) = <<1, 2, 4, 3>>
    /\ Len(rres.intros) = 4
    /\ rres.intros[3].path = <<"books", Var, "_doc">>
    /\ [method |-> GET, description |-> "y"] \in Range(rres.intros[3].methods)

----------------------------------------------------------------------------
(* C28: a POST of an object whose identifier already exists in the store   *)
(* is rejected with a client error, 400 or 409; the existing object is     *)
(* not overwritten and the store is unchanged.                             *)
C28_ExistingPostIsClientError ==
    [][ (/\ Answered({"POST"})
         /\ ItemKey(req') = ""
         /\ Decodes(req'.body)
         /\ dataStore[req'.body.id] # Absent) =>
            /\ resp'.status \in {StatusBadRequest, StatusConflict}
            /\ dataStore' = dataStore ]_vars

----------------------------------------------------------------------------
(* Vocabulary of the streaming properties *)

RECURSIVE Encoded(_)
\* the encodings of the items, in order, with a comma between neighbours
Encoded(seq) ==
    IF seq = <<>> THEN ""
    ELSE IF Len(seq) = 1 THEN seq[1]
    ELSE seq[1] \o "," \o Encoded(Tail(seq))

Responded == pc = "done" /\ cpc = "returned"

\* the positions of the items the read loop cannot write
Failures == {p \in 1..Len(items) : items[p] \in ErrItems \cup {BadItem}}

FirstFailure == CHOOSE p \in Failures : \A q \in Failures : p <= q

(* C29 as stated: for a streaming GetAll that yields no error item the     *)
(* response is 200 with the JSON array of the encodings of every item      *)
(* sent, each once, in the order sent, separated by commas; `[]` when the  *)
(* producer closes without sending.                                        *)
C29_StreamIsArrayInOrder ==
    (Responded /\ Range(items) \cap ErrItems = {}) =>
        resp = [status |-> StatusOK, body |-> "[" \o Encoded(items) \o "]"]

(* C29, amended: the same for a streaming GetAll that yields no error item *)
(* and no item that json.Marshal rejects.                                  *)
C29_EncodableStreamIsArrayInOrder ==
    (Responded /\ Range(items) \cap (ErrItems \cup {BadItem}) = {}) =>
        /\ resp = [status |-> StatusOK, body |-> "[" \o Encoded(items) \o "]"]
        /\ sent = Len(items)
        /\ items = <<>> => resp.body = "[]"

C29_Witness ==
    /\ Responded
    /\ items = <<OkItem2, OkItem, OkItem2>>
    /\ resp = [status |-> StatusOK, body |-> "[y,x,y]"]

----------------------------------------------------------------------------
\* the read has been answered and the handler caches
MissAnswered == pc = "done" /\ wrote # NoWrite /\ Expiration # 0

----------------------------------------------------------------------------
\* v is the value of the first pair of the query q whose name is n
IsFirstValue(q, n, v) ==
    \E i \in 1..Len(q) :
        q[i] = <<n, v>> /\ \A j \in 1..(i - 1) : q[j][1] # n

(* C32: after the query merge, for every parameter name present in the URL *)
(* query kvpairs holds the first query value for that name, overwriting a  *)
(* path parameter of the same name, and every kvpairs entry whose name     *)
(* does not occur in the query is unchanged.                               *)
C32_QueryWinsFirstValue ==
    mpc = "done" =>
        LET before == RouteKV(r1.path, r1.keyGroup)
            names == {r1.query[i][1] : i \in 1..Len(r1.query)}
        IN /\ DOMAIN kv1 = DOMAIN before \cup names
           /\ \A n \in names : IsFirstValue(r1.query, n, kv1[n])
           /\ \A n \in DOMAIN before \ names : kv1[n] = before[n]

\* the path gives key 0, the query gives key twice: the first value wins
C32_Witness ==
    /\ mpc = "done"
    /\ r1.path = "/0" /\ r1.keyGroup
    /\ r1.query = <<<<"key", "1">>, <<"key", "0">>>>
    /\ kv1 = KVSet(EmptyMap, Key, "1")

----------------------------------------------------------------------------
\* a call of the log that failed
Failed(log, op) == \E i \in 1..Len(log) : log[i].op = op /\ ~log[i].ok

\* a backend mutation of the log succeeded
Mutated(log) == \E i \in 1..Len(log) : log[i].op \in MutationOps /\ log[i].ok

(* C33: when the backend mutation of a PUT, PATCH, POST or DELETE succeeds *)
(* the request is answered 200 with the body of a success, the message     *)
(* Success or the new id, whether the cache Deletes that follow fail or    *)
(* not.                                                                    *)
C33_DeleteFailureKeepsSuccess ==
    [][ (pc = "idle" /\ pc' = "done" /\ req'.method \in Mutations
            /\ Mutated(calls')) =>
            /\ resp'.status = StatusOK
            /\ resp'.body = (IF req'.method = "POST" THEN JSONId(req'.body.id)
                             ELSE JSONMsg(SUCCESS)) ]_vars

\* both Deletes of a PUT fail and the PUT is answered with success
C33_Witness ==
    /\ Served /\ CachingOn /\ req.method = "PUT"
    /\ Mutated(calls) /\ Failed(calls, "Cache.Delete")
    /\ \A i \in 1..Len(calls) : calls[i].op = "Cache.Delete" => ~calls[i].ok
    /\ resp = [status |-> StatusOK, body |-> JSONMsg(SUCCESS)]

----------------------------------------------------------------------------
(* C34: the self-description lists the methods of each router in the order *)
(* they were registered, OPTIONS first, and two calls on an unchanged      *)
(* router return the identical document: the router has one possible       *)
(* self-description.                                                       *)
C34_SelfIntroInRegistrationOrder ==
    SelfIntroReturned =>
        /\ \A p \in 1..Len(rres.intros) :
               [k \in 1..Len(rres.intros[p].methods) |->
                   rres.intros[p].methods[k].method]
                   = routers[PreOrder(rreq.router)[p]].registered
        /\ SelfIntro(rreq.router) = {rres.intros}

----------------------------------------------------------------------------
BothDone == \A p \in Procs : proc[p].pc = "done"

(* C35: in the getCacheKey handler with caching enabled, when a GET of     *)
(* item k runs concurrently with a successful PUT of k, then in every      *)
(* interleaving the cache, once both have completed, holds no entry for k  *)
(* or the serialization of the backend's current value of k.               *)
C35_NoStaleEntryAfterRace ==
    (/\ variant = "getCacheKey" /\ Expiration # 0
     /\ BothDone
     /\ proc["get"].sup = proc["put"].sup
     /\ proc["put"].b = SUCCESS) =>
        LET k == proc["get"].sup
        IN \/ ~CacheHas(cache, RaceKey(k))
           \/ cache[RaceKey(k)] = Marshal(k, dataStore[k])

(* C36: when two requests are handled concurrently by one RESTHandler,     *)
(* each dispatches on, and passes to the backend, the parameter mapping    *)
(* supplied for that request, in every interleaving.                       *)
C36_OwnParameters ==
    \A p \in Procs : proc[p].key # "" => proc[p].key = proc[p].sup

----------------------------------------------------------------------------
(* C37: of two requests to the same handler, one with a non-empty primary  *)
(* key and one with an empty or absent primary key, whatever the other     *)
(* parameters of the two, the cache keys differ.                           *)
C37_ItemKeyDiffersFromCollectionKey ==
    (KeysComputed /\ ItemKey(r1) # "" /\ ItemKey(r2) = "") => k1 # k2

(* C38: two single-item GET requests whose parameter mappings differ never *)
(* get the same cache key from one handler.                                *)
C38_DistinctMappingsDistinctKeys ==
    (/\ KeysComputed
     /\ ItemKey(r1) # "" /\ ItemKey(r2) # ""
     /\ ~SamePairs(Merged(r1), Merged(r2))) => k1 # k2

----------------------------------------------------------------------------
WriteOps == {"Model.Put", "Model.PutAll", "Model.Patch", "Model.Post",
             "Model.Delete", "Model.DeleteAll", "Cache.Delete"}

(* C39: a GET request, with or without a key, calls none of Put, PutAll,   *)
(* Patch, Post, Delete, DeleteAll on the backend and issues no Cache       *)
(* Delete; it leaves the backend as it was, and every cache entry but the  *)
(* one of its own key as it was.                                           *)
C39_GetOnlyAddsItsOwnEntry ==
    [][ (pc = "idle" /\ pc' = "done" /\ req'.method = "GET") =>
            /\ Ops(calls') \cap WriteOps = {}
            /\ dataStore' = dataStore
            /\ DOMAIN cache \subseteq DOMAIN cache'
            /\ DOMAIN cache' \subseteq DOMAIN cache \cup {ReadKey(req')}
            /\ \A k \in DOMAIN cache \ {ReadKey(req')} : cache'[k] = cache[k]
      ]_vars

\* a GET has stored its entry next to the entry of another read
C39_Witness ==
    /\ Served /\ req.method = "GET"
    /\ \E i \in 1..Len(calls) :
           calls[i].op = "Cache.Set" /\ calls[i].ok
                /\ calls[i].arg = ReadKey(req)
    /\ CacheHas(cache, ReadKey(req))
    /\ Cardinality(DOMAIN cache) = 2

----------------------------------------------------------------------------
(* the writes that put something on the wire: a status line or bytes *)
Produced(ws) == SelectSeq(ws, LAMBDA x : x.status # 0 \/ x.body # "")

(* C40: on every path through ServeHTTP, the panics included, the request  *)
(* gets exactly one response: one status line and one body.                *)
C40_ExactlyOneResponse ==
    pc = "done" => Len(Produced(writes)) = 1

====
